---- MODULE Spec2Model ----
(***************************************************************************)
(* ClutterActor (clutter-actor.c): the actor's private state, its flags,   *)
(* the per-actor modelview composer and its recursive accumulator, paint   *)
(* and pick, the property setters, the redraw idle source, opacity         *)
(* inheritance and the signal emission of clutter_actor_event.             *)
(*                                                                         *)
(* Backend (cogl) calls are recorded in gl, signal emissions and property  *)
(* notifications in emitted, the composer invocations in applied, and the  *)
(* API call that produced them in last.                                    *)
(***************************************************************************)
EXTENDS Integers, Sequences, FiniteSets, TLC

VARIABLES
    actors,        \* ClutterActorPrivate + flags of every actor
    id_counter,    \* static guint32 __id
    update_idle,   \* ctx->update_idle: id of the pending redraw source, or 0
    pick_mode,     \* ctx->pick_mode
    bitmasks,      \* colour depths reported by cogl_get_bitmasks: <<r, g, b>>
    actor_hash,    \* ctx->actor_hash: identifier -> actor
    idle_sources,  \* main loop: ids of the idle sources registered and not yet run
    next_source,   \* main loop: id the next registered source gets
    gl,            \* backend calls issued by the last API call, in order
    applied,       \* composer invocations of the last API call, in order: [self, ops]
    emitted,       \* signals and property notifications of the last API call
    last,          \* the last API call: its name, arguments and result
    tick,          \* queued, registered: calls of queue_redraw / idle registrations since the
                   \* idle source last ran; scheduled: idle registrations so far
    redraws,       \* calls of clutter_redraw so far
    ncalls,        \* API calls made so far (bounded runs)
    delivered,     \* calls of clutter_actor_event made by the last dispatch, in order
    walk,          \* the recursive ancestor walk in progress: [fn, self, at]
    destroy_emitted, \* per actor: emissions of its 'destroy' signal so far
    mem,           \* the heap blocks of the actors' names, and the actors finalized
    behave         \* the scale behaviour: its properties, stored bounds and actors

vars == <<actors, id_counter, update_idle, pick_mode, bitmasks, actor_hash, idle_sources,
          next_source, gl, applied, emitted, last, tick, redraws, ncalls, delivered,
          walk, destroy_emitted, mem, behave>>

(***************************************************************************)
(* Bounds of the model.                                                    *)
(***************************************************************************)
NActors == 3          \* actors alive in a run
MaxCalls == 2         \* API calls in a run of the setters
MaxQueued == 5        \* API calls in a run of the redraw scheduler
MaxRedraws == 2       \* runs of the idle source in a run
MaxDispatches == 1    \* events dispatched in a run of the dispatcher
SourceIdWrap == 3     \* width of the main loop's source id counter (ids 1..SourceIdWrap)
MaxBlocks == 2        \* heap addresses the allocator hands out for names
MaxNameCalls == 3     \* calls of set_name and finalize in one run
MaxScaleCalls == 3    \* property writes and alpha notifications of the behaviour in one run

Actors == 1..NActors
Blocks == 1..MaxBlocks
NULL == 0

(***************************************************************************)
(* Fixed point and units (clutter-fixed.h, clutter-units.h): 16.16.        *)
(***************************************************************************)
CFX_ONE == 65536
CFX_HALF == CFX_ONE \div 2
CLUTTER_UNITS_FROM_INT(x) == x * CFX_ONE
CLUTTER_UNITS_TO_INT(u) == u \div CFX_ONE      \* >> 16 on a signed value: floor

(***************************************************************************)
(* Actor state.                                                            *)
(***************************************************************************)
ZeroBox == [x1 |-> 0, y1 |-> 0, x2 |-> 0, y2 |-> 0]
ZeroGeometry == [x |-> 0, y |-> 0, width |-> 0, height |-> 0]

\* clutter_actor_init on zero-filled instance memory
clutter_actor_init(id) ==
    [ coords |-> ZeroBox,
      clip |-> ZeroGeometry, has_clip |-> FALSE,
      rxang |-> 0, ryang |-> 0, rzang |-> 0,
      rzx |-> 0, rzy |-> 0, rxy |-> 0, rxz |-> 0, ryx |-> 0, ryz |-> 0,
      z |-> 0,
      opacity |-> 255,
      parent_actor |-> NULL,
      scale_x |-> CFX_ONE, scale_y |-> CFX_ONE,
      id |-> id,
      name |-> NULL,           \* NULL or the address of a heap block
      anchor_x |-> 0, anchor_y |-> 0,
      is_container |-> FALSE,  \* CLUTTER_IS_CONTAINER: the instance's class is a container
      flags |-> {},            \* subset of {"REALIZED", "MAPPED", "REACTIVE"}
      private_flags |-> {} ]   \* subset of {"IS_TOPLEVEL", "IN_DESTRUCTION", "IN_REPARENT"}

CLUTTER_ACTOR_IS_REALIZED(p) == "REALIZED" \in p.flags
CLUTTER_ACTOR_IS_MAPPED(p) == "MAPPED" \in p.flags
CLUTTER_ACTOR_IS_VISIBLE(p) == CLUTTER_ACTOR_IS_REALIZED(p) /\ CLUTTER_ACTOR_IS_MAPPED(p)
IsReactiveAlways(p) == TRUE
CLUTTER_ACTOR_IS_REACTIVE(p) == "REACTIVE" \in p.flags
IS_TOPLEVEL(p) == "IS_TOPLEVEL" \in p.private_flags

clutter_actor_get_parent(a) == actors[a].parent_actor
clutter_actor_get_gid(a) == actors[a].id
clutter_actor_get_width(p) == CLUTTER_UNITS_TO_INT(p.coords.x2 - p.coords.x1)
clutter_actor_get_height(p) == CLUTTER_UNITS_TO_INT(p.coords.y2 - p.coords.y1)

(***************************************************************************)
(* Backend calls.                                                          *)
(***************************************************************************)
Call(name, args) == [call |-> name, args |-> args]
cogl_push_matrix == Call("push_matrix", <<>>)
cogl_pop_matrix == Call("pop_matrix", <<>>)
cogl_translate(x, y, z) == Call("translate", <<x, y, z>>)
cogl_scale(x, y) == Call("scale", <<x, y>>)
cogl_rotatex(angle, x, y, z) == Call("rotatex", <<angle, x, y, z>>)
cogl_clip_set(clip) == Call("clip_set", <<clip.x, clip.y, clip.width, clip.height>>)
cogl_clip_unset == Call("clip_unset", <<>>)
cogl_color(col) == Call("color", <<col.red, col.green, col.blue, col.alpha>>)
cogl_rectangle(x, y, w, h) == Call("rectangle", <<x, y, w, h>>)
klass_paint(a) == Call("paint", <<a>>)

If(c, s) == IF c THEN s ELSE <<>>

(***************************************************************************)
(* _clutter_actor_apply_modelview_transform: the backend calls the         *)
(* composer issues for an actor with private state p.                      *)
(***************************************************************************)
ComposeScaleAfterRotation(p) ==
    LET parent == p.parent_actor IN
       If(parent # NULL,
          << cogl_translate(CLUTTER_UNITS_TO_INT(p.coords.x1),
                            CLUTTER_UNITS_TO_INT(p.coords.y1), 0) >>)
    \o If(parent # NULL /\ (p.anchor_x # 0 \/ p.anchor_y # 0),
          << cogl_translate(CLUTTER_UNITS_TO_INT(-p.anchor_x),
                            CLUTTER_UNITS_TO_INT(-p.anchor_y), 0) >>)
    \o If(p.rzang # 0,
          << cogl_translate(p.rzx, p.rzy, 0),
             cogl_rotatex(p.rzang, 0, 0, CFX_ONE),
             cogl_translate(-p.rzx, -p.rzy, 0) >>)
    \o If(p.ryang # 0,
          << cogl_translate(p.ryx, 0, p.z + p.ryz),
             cogl_rotatex(p.ryang, 0, CFX_ONE, 0),
             cogl_translate(-p.ryx, 0, -(p.z + p.ryz)) >>)
    \o If(p.rxang # 0,
          << cogl_translate(0, p.rxy, p.z + p.rxz),
             cogl_rotatex(p.rxang, CFX_ONE, 0, 0),
             cogl_translate(0, -p.rxy, -(p.z + p.rxz)) >>)
    \o If(p.scale_x # CFX_ONE \/ p.scale_y # CFX_ONE,
          << cogl_scale(p.scale_x, p.scale_y) >>)
    \o If(p.z # 0, << cogl_translate(0, 0, p.z) >>)
    \o If(p.has_clip, << cogl_clip_set(p.clip) >>)

ComposeUngated(p) ==
       << cogl_translate(CLUTTER_UNITS_TO_INT(p.coords.x1),
                         CLUTTER_UNITS_TO_INT(p.coords.y1), 0) >>
    \o If(p.scale_x # CFX_ONE \/ p.scale_y # CFX_ONE,
          << cogl_scale(p.scale_x, p.scale_y) >>)
    \o If(p.anchor_x # 0 \/ p.anchor_y # 0,
          << cogl_translate(CLUTTER_UNITS_TO_INT(-p.anchor_x),
                            CLUTTER_UNITS_TO_INT(-p.anchor_y), 0) >>)
    \o If(p.rzang # 0,
          << cogl_translate(p.rzx, p.rzy, 0),
             cogl_rotatex(p.rzang, 0, 0, CFX_ONE),
             cogl_translate(-p.rzx, -p.rzy, 0) >>)
    \o If(p.ryang # 0,
          << cogl_translate(p.ryx, 0, p.z + p.ryz),
             cogl_rotatex(p.ryang, 0, CFX_ONE, 0),
             cogl_translate(-p.ryx, 0, -(p.z + p.ryz)) >>)
    \o If(p.rxang # 0,
          << cogl_translate(0, p.rxy, p.z + p.rxz),
             cogl_rotatex(p.rxang, CFX_ONE, 0, 0),
             cogl_translate(0, -p.rxy, -(p.z + p.rxz)) >>)
    \o If(p.z # 0, << cogl_translate(0, 0, p.z) >>)
    \o If(p.has_clip, << cogl_clip_set(p.clip) >>)

clutter_actor_apply_modelview_transform(p) ==
    LET parent == p.parent_actor IN
       If(parent # NULL,
          << cogl_translate(CLUTTER_UNITS_TO_INT(p.coords.x1),
                            CLUTTER_UNITS_TO_INT(p.coords.y1), 0) >>)
    \o If(p.scale_x # CFX_ONE \/ p.scale_y # CFX_ONE,
          << cogl_scale(p.scale_x, p.scale_y) >>)
    \o If(parent # NULL /\ (p.anchor_x # 0 \/ p.anchor_y # 0),
          << cogl_translate(CLUTTER_UNITS_TO_INT(-p.anchor_x),
                            CLUTTER_UNITS_TO_INT(-p.anchor_y), 0) >>)
    \o If(p.rzang # 0,
          << cogl_translate(p.rzx, p.rzy, 0),
             cogl_rotatex(p.rzang, 0, 0, CFX_ONE),
             cogl_translate(-p.rzx, -p.rzy, 0) >>)
    \o If(p.ryang # 0,
          << cogl_translate(p.ryx, 0, p.z + p.ryz),
             cogl_rotatex(p.ryang, 0, CFX_ONE, 0),
             cogl_translate(-p.ryx, 0, -(p.z + p.ryz)) >>)
    \o If(p.rxang # 0,
          << cogl_translate(0, p.rxy, p.z + p.rxz),
             cogl_rotatex(p.rxang, CFX_ONE, 0, 0),
             cogl_translate(0, -p.rxy, -(p.z + p.rxz)) >>)
    \o If(p.z # 0, << cogl_translate(0, 0, p.z) >>)
    \o If(p.has_clip, << cogl_clip_set(p.clip) >>)

(***************************************************************************)
(* _clutter_actor_apply_modelview_transform_recursive: the composer        *)
(* invocations, as a sequence of [self, ops].                              *)
(***************************************************************************)
RECURSIVE RecurseSelfFirst(_, _)
RecurseSelfFirst(acts, self) ==
    LET parent == acts[self].parent_actor IN
       << [self |-> self, ops |-> clutter_actor_apply_modelview_transform(acts[self])] >>
    \o (IF parent # NULL THEN RecurseSelfFirst(acts, parent) ELSE <<>>)

RECURSIVE RecurseImpl(_, _)
RecurseImpl(acts, self) ==
    LET parent == acts[self].parent_actor IN
       (IF parent # NULL THEN RecurseImpl(acts, parent) ELSE <<>>)
    \o << [self |-> self, ops |-> clutter_actor_apply_modelview_transform(acts[self])] >>

clutter_actor_apply_modelview_transform_recursive(acts, self) ==
    RecurseImpl(acts, self)

RECURSIVE Flatten(_)
Flatten(invs) ==
    IF invs = <<>> THEN <<>> ELSE Head(invs).ops \o Flatten(Tail(invs))

Selves(invs) == [i \in 1..Len(invs) |-> invs[i].self]

(***************************************************************************)
(* The redraw idle source (clutter_actor_queue_redraw, redraw_update_idle) *)
(* on the context c = [update_idle, idle_sources, next_source, tick].      *)
(***************************************************************************)
Ctx == [update_idle |-> update_idle, idle_sources |-> idle_sources,
        next_source |-> next_source, tick |-> tick]

SetCtx(c) ==
    /\ update_idle' = c.update_idle
    /\ idle_sources' = c.idle_sources
    /\ next_source' = c.next_source
    /\ tick' = c.tick

\* clutter_threads_add_idle_full: the main loop registers a source and returns its id
clutter_threads_add_idle_full(c) ==
    [c EXCEPT !.idle_sources = @ \cup {c.next_source},
              !.next_source = (c.next_source % SourceIdWrap) + 1,
              !.update_idle = c.next_source,
              !.tick.registered = @ + 1,
              !.tick.scheduled = @ + 1]

QueueRedrawAlways(c) ==
    clutter_threads_add_idle_full([c EXCEPT !.tick.queued = @ + 1])

clutter_actor_queue_redraw(c) ==
    LET c1 == [c EXCEPT !.tick.queued = @ + 1] IN
    IF c1.update_idle = 0 THEN clutter_threads_add_idle_full(c1) ELSE c1

\* calls of queue_redraw made under a condition
Queued(cond) == IF cond THEN 1 ELSE 0

(***************************************************************************)
(* The record of the last API call.                                        *)
(***************************************************************************)
NoCall == [op |-> "none", self |-> NULL, arg |-> <<>>, ret |-> <<>>,
           same |-> FALSE, was_visible |-> FALSE, queued |-> 0, fns |-> {}]

(***************************************************************************)
(* realize / unrealize / show / hide on the private state p.               *)
(* ok: whether the class's realize handler gets its resources; a handler   *)
(* that fails unsets the flag again.                                       *)
(***************************************************************************)
clutter_actor_realize(p, ok) ==
    IF CLUTTER_ACTOR_IS_REALIZED(p) THEN p
    ELSE IF ok THEN [p EXCEPT !.flags = @ \cup {"REALIZED"}]
    ELSE p

clutter_actor_unrealize(p) ==
    IF ~CLUTTER_ACTOR_IS_REALIZED(p) THEN p
    ELSE [p EXCEPT !.flags = @ \ {"REALIZED"}]

(***************************************************************************)
(* Picking: the colour of an identifier under the channel depths.          *)
(***************************************************************************)
Pow2(n) == 2 ^ n
Shr(x, n) == x \div Pow2(n)
Shl(x, n) == x * Pow2(n)
Mask(n) == Pow2(n) - 1            \* 0xff >> (8 - n), for n in 0..8
BitAnd(x, mask) == x % (mask + 1) \* x & mask, for mask = 2^n - 1
Guint8(x) == x % 256

PickColorUnshifted(id, r, g, b) ==
    [ red   |-> Guint8(BitAnd(Shr(id, g + b), Mask(r))),
      green |-> Guint8(BitAnd(Shr(id, b), Mask(g))),
      blue  |-> Guint8(BitAnd(id, Mask(b))),
      alpha |-> 255 ]

PickColor(id, r, g, b) ==
    [ red   |-> Guint8(Shl(BitAnd(Shr(id, g + b), Mask(r)), 8 - r)),
      green |-> Guint8(Shl(BitAnd(Shr(id, b), Mask(g)), 8 - g)),
      blue  |-> Guint8(Shl(BitAnd(id, Mask(b)), 8 - b)),
      alpha |-> 255 ]

PickPaintReactiveOnly(p, mode) ==
    CLUTTER_ACTOR_IS_MAPPED(p) /\ CLUTTER_ACTOR_IS_REACTIVE(p)

clutter_actor_should_pick_paint(p, mode) ==
    CLUTTER_ACTOR_IS_MAPPED(p) /\ (mode = "ALL" \/ CLUTTER_ACTOR_IS_REACTIVE(p))

clutter_actor_real_pick(p, mode, color) ==
    If(clutter_actor_should_pick_paint(p, mode),
       << cogl_color(color),
          cogl_rectangle(0, 0, clutter_actor_get_width(p), clutter_actor_get_height(p)) >>)

(***************************************************************************)
(* clutter_actor_paint                                                     *)
(***************************************************************************)
PaintCalls(self, p) ==
       << cogl_push_matrix >>
    \o clutter_actor_apply_modelview_transform(p)
    \o (IF pick_mode # "NONE"
        THEN clutter_actor_real_pick(p, pick_mode,
                 PickColor(p.id, bitmasks[1], bitmasks[2], bitmasks[3]))
        ELSE << klass_paint(self) >>)
    \o If(p.has_clip, << cogl_clip_unset >>)
    \o << cogl_pop_matrix >>

clutter_actor_paint(self, ok) ==
    LET p0 == actors[self]
        p1 == clutter_actor_realize(p0, ok)
        aborted == ~CLUTTER_ACTOR_IS_REALIZED(p1)
    IN
    /\ actors' = [actors EXCEPT ![self] = p1]
    /\ gl' = IF aborted THEN <<>> ELSE PaintCalls(self, p1)
    /\ applied' = IF aborted THEN <<>>
                  ELSE << [self |-> self,
                           ops |-> clutter_actor_apply_modelview_transform(p1)] >>
    /\ emitted' = <<>>
    /\ last' = [NoCall EXCEPT !.op = "paint", !.self = self, !.arg = <<ok>>,
                              !.ret = << ~aborted >>,
                              !.was_visible = CLUTTER_ACTOR_IS_VISIBLE(p0),
                              !.fns = IF CLUTTER_ACTOR_IS_REALIZED(p0) THEN {} ELSE {"realize"}]
    /\ UNCHANGED <<mem, behave, id_counter, destroy_emitted, walk, delivered, update_idle, pick_mode, bitmasks, actor_hash,
                   idle_sources, next_source, tick, redraws, ncalls>>

(***************************************************************************)
(* clutter_actor_transform_vertices / clutter_actor_transform_point: the   *)
(* backend calls of a coordinate query (push, accumulate, read, pop).      *)
(***************************************************************************)
clutter_actor_transform_vertices(self) ==
    LET invs == clutter_actor_apply_modelview_transform_recursive(actors, self) IN
    /\ gl' = << cogl_push_matrix >> \o Flatten(invs) \o << cogl_pop_matrix >>
    /\ applied' = invs
    /\ emitted' = <<>>
    /\ last' = [NoCall EXCEPT !.op = "transform_vertices", !.self = self,
                              !.was_visible = CLUTTER_ACTOR_IS_VISIBLE(actors[self])]
    /\ UNCHANGED <<mem, behave, actors, id_counter, destroy_emitted, walk, delivered, update_idle, pick_mode, bitmasks, actor_hash,
                   idle_sources, next_source, tick, redraws, ncalls>>

(***************************************************************************)
(* Initial states.                                                         *)
(***************************************************************************)
\* NActors actors created after `base` earlier ones: ids base, base+1, ...
\* (priv->id = __id++; the identifiers of the model stay below 2^31)
Created(base) == [a \in Actors |-> clutter_actor_init(base + a - 1)]

\* ctx->actor_hash as clutter_actor_set_parent leaves it: the parented actors
HashOf(acts) ==
    LET attached == {a \in Actors : acts[a].parent_actor # NULL} IN
    [i \in {acts[a].id : a \in attached} |->
        CHOOSE a \in attached : acts[a].id = i]

\* no scale behaviour has been constructed
NoBehaviour == [prop_start |-> <<1, 0>>, prop_end |-> <<1, 0>>,
                scale_start |-> CFX_ONE, scale_end |-> CFX_ONE, actors |-> {}]

InitCore ==
    /\ update_idle = 0
    /\ idle_sources = {}
    /\ next_source = 1
    /\ gl = <<>>
    /\ applied = <<>>
    /\ emitted = <<>>
    /\ last = NoCall
    /\ tick = [queued |-> 0, registered |-> 0, scheduled |-> 0]
    /\ redraws = 0
    /\ ncalls = 0
    /\ delivered = <<>>
    /\ walk = [fn |-> "none", self |-> NULL, at |-> NULL]
    /\ destroy_emitted = [a \in Actors |-> 0]
    /\ mem = [blocks |-> [b \in Blocks |-> "unused"], finalized |-> {}]

InitRest ==
    /\ InitCore
    /\ behave = NoBehaviour

Visible == {"REALIZED", "MAPPED"}

\* parent links: every actor a root, or the chain 1 <- 2 <- ... <- NActors
ChainShapes == { [a \in Actors |-> NULL], [a \in Actors |-> a - 1] }

Pixels(w, h) == [x1 |-> 0, y1 |-> 0,
                 x2 |-> CLUTTER_UNITS_FROM_INT(w), y2 |-> CLUTTER_UNITS_FROM_INT(h)]
MoveTo(box, x, y) == [x1 |-> x, y1 |-> y,
                      x2 |-> box.x2 + (x - box.x1), y2 |-> box.y2 + (y - box.y1)]

Origins == { <<0, 0>>, <<CLUTTER_UNITS_FROM_INT(2), CLUTTER_UNITS_FROM_INT(3)>> }
\* <<scale_x, scale_y, anchor_x, anchor_y>>
ScaleAnchors ==
    { <<CFX_ONE, CFX_ONE, 0, 0>>,
      <<CFX_HALF, CFX_ONE, 0, 0>>,
      <<CFX_ONE, CFX_ONE, CLUTTER_UNITS_FROM_INT(1), 0>>,
      <<CFX_HALF, CFX_ONE, CLUTTER_UNITS_FROM_INT(1), 0>>,
      <<CFX_ONE, 2 * CFX_ONE, 0, CLUTTER_UNITS_FROM_INT(2) + CFX_HALF>> }
Angle45 == 45 * CFX_ONE
Depths == { 0, -5 }
ClipRect == [x |-> 1, y |-> 1, width |-> 2, height |-> 2]

\* Transform states: the actors share size, scale, rotations, depth and clip;
\* one actor k has its own origin, anchor point and flags.
InitTransform ==
    /\ \E k \in Actors, sh \in ChainShapes, o \in Origins, sa \in ScaleAnchors,
          rz \in BOOLEAN, ry \in BOOLEAN, rx \in BOOLEAN,
          d \in Depths, cl \in BOOLEAN, fl \in {{}, Visible} :
         actors = [a \in Actors |->
            [Created(0)[a] EXCEPT
               !.parent_actor = sh[a],
               !.coords = IF a = k THEN MoveTo(Pixels(4, 2), o[1], o[2]) ELSE Pixels(4, 2),
               !.anchor_x = IF a = k THEN sa[3] ELSE 0,
               !.anchor_y = IF a = k THEN sa[4] ELSE 0,
               !.scale_x = sa[1], !.scale_y = sa[2],
               !.rzang = IF rz THEN Angle45 ELSE 0,
               !.rzx = IF rz THEN 1 ELSE 0, !.rzy = IF rz THEN 2 ELSE 0,
               !.ryang = IF ry THEN Angle45 ELSE 0,
               !.ryx = IF ry THEN 3 ELSE 0, !.ryz = IF ry THEN 4 ELSE 0,
               !.rxang = IF rx THEN Angle45 ELSE 0,
               !.rxy = IF rx THEN 5 ELSE 0, !.rxz = IF rx THEN 6 ELSE 0,
               !.z = d,
               !.has_clip = cl, !.clip = IF cl THEN ClipRect ELSE ZeroGeometry,
               !.flags = IF a = k THEN fl ELSE Visible]]
    /\ id_counter = NActors
    /\ actor_hash = HashOf(actors)
    /\ pick_mode = "NONE"
    /\ bitmasks = <<8, 8, 8>>
    /\ InitRest

Paint == \E self \in Actors, ok \in BOOLEAN : clutter_actor_paint(self, ok)
TransformVertices == \E self \in Actors : clutter_actor_transform_vertices(self)

NextTransform == Paint \/ TransformVertices
SpecTransform == InitTransform /\ [][NextTransform]_vars

(***************************************************************************)
(* C1: every composer invocation issues, in this order and nothing else:   *)
(* origin translate [parent]; scale [scale_x or scale_y # 1.0]; anchor     *)
(* translate [parent and anchor # 0]; Z pivot, rotate, pivot back          *)
(* [Z angle # 0]; the same for Y and for X; depth translate [depth # 0];   *)
(* clip set [clip present].  Box origin and anchor point are passed in     *)
(* pixels.  In a paint the calls follow the matrix push directly.          *)
(***************************************************************************)
Stages(p) ==
    << [on |-> p.parent_actor # NULL,
        calls |-> << Call("translate", << CLUTTER_UNITS_TO_INT(p.coords.x1),
                                          CLUTTER_UNITS_TO_INT(p.coords.y1), 0 >>) >>],
       [on |-> ~(p.scale_x = CFX_ONE /\ p.scale_y = CFX_ONE),
        calls |-> << Call("scale", << p.scale_x, p.scale_y >>) >>],
       [on |-> p.parent_actor # NULL /\ ~(p.anchor_x = 0 /\ p.anchor_y = 0),
        calls |-> << Call("translate", << CLUTTER_UNITS_TO_INT(0 - p.anchor_x),
                                          CLUTTER_UNITS_TO_INT(0 - p.anchor_y), 0 >>) >>],
       [on |-> p.rzang # 0,
        calls |-> << Call("translate", << p.rzx, p.rzy, 0 >>),
                     Call("rotatex", << p.rzang, 0, 0, CFX_ONE >>),
                     Call("translate", << 0 - p.rzx, 0 - p.rzy, 0 >>) >>],
       [on |-> p.ryang # 0,
        calls |-> << Call("translate", << p.ryx, 0, p.z + p.ryz >>),
                     Call("rotatex", << p.ryang, 0, CFX_ONE, 0 >>),
                     Call("translate", << 0 - p.ryx, 0, 0 - (p.z + p.ryz) >>) >>],
       [on |-> p.rxang # 0,
        calls |-> << Call("translate", << 0, p.rxy, p.z + p.rxz >>),
                     Call("rotatex", << p.rxang, CFX_ONE, 0, 0 >>),
                     Call("translate", << 0, 0 - p.rxy, 0 - (p.z + p.rxz) >>) >>],
       [on |-> p.z # 0,
        calls |-> << Call("translate", << 0, 0, p.z >>) >>],
       [on |-> p.has_clip,
        calls |-> << Call("clip_set", << p.clip.x, p.clip.y,
                                         p.clip.width, p.clip.height >>) >>] >>

RECURSIVE StagesFrom(_, _)
StagesFrom(st, i) ==
    IF i > Len(st) THEN <<>>
    ELSE (IF st[i].on THEN st[i].calls ELSE <<>>) \o StagesFrom(st, i + 1)

ExpectedCalls(p) == StagesFrom(Stages(p), 1)

C1_ComposerOrder ==
    /\ \A i \in DOMAIN applied :
          applied[i].ops = ExpectedCalls(actors[applied[i].self])
    /\ (last.op = "paint" /\ gl # <<>>) =>
          /\ gl[1].call = "push_matrix"
          /\ SubSeq(gl, 2, 1 + Len(applied[1].ops)) = ExpectedCalls(actors[last.self])

C1_Witness ==
    /\ last.op = "paint"
    /\ Len(applied) = 1
    /\ Len(applied[1].ops) = 14
    /\ applied[1].ops[2].call = "scale"

(***************************************************************************)
(* C2: the composer calls of a parentless actor do not depend on its       *)
(* anchor point or its box origin: they are the calls of every parentless  *)
(* actor that differs from it only there.                                  *)
(***************************************************************************)
Neutral(p) ==
    [p EXCEPT !.coords = MoveTo(p.coords, 0, 0), !.anchor_x = 0, !.anchor_y = 0,
              !.id = 0, !.flags = {}]

C2_RootIgnoresAnchorAndOrigin ==
    \A i \in DOMAIN applied : \A b \in Actors :
        LET a == applied[i].self IN
        ( /\ actors[a].parent_actor = NULL
          /\ actors[b].parent_actor = NULL
          /\ Neutral(actors[a]) = Neutral(actors[b]) )
        => applied[i].ops = clutter_actor_apply_modelview_transform(actors[b])

C2_Witness ==
    /\ applied # <<>>
    /\ \E b \in Actors :
        LET a == applied[1].self IN
        /\ actors[a].parent_actor = NULL
        /\ actors[b].parent_actor = NULL
        /\ Neutral(actors[a]) = Neutral(actors[b])
        /\ actors[a].anchor_x # actors[b].anchor_x
        /\ actors[a].coords.x1 # actors[b].coords.x1
        /\ applied[1].ops # <<>>

(***************************************************************************)
(* C3: the accumulator runs the composer once for every actor of the       *)
(* ancestor chain of the queried actor, root first and the actor last,     *)
(* and for no other actor.                                                 *)
(***************************************************************************)
IsChainTo(seq, self) ==
    /\ Len(seq) >= 1
    /\ seq[Len(seq)] = self
    /\ actors[seq[1]].parent_actor = NULL
    /\ \A i \in 1..(Len(seq) - 1) : actors[seq[i + 1]].parent_actor = seq[i]
    /\ \A i, j \in DOMAIN seq : i # j => seq[i] # seq[j]

C3_AccumulatorRootFirst ==
    last.op = "transform_vertices" => IsChainTo(Selves(applied), last.self)

C3_Witness ==
    /\ last.op = "transform_vertices"
    /\ Len(applied) = 3

(***************************************************************************)
(* clutter_actor_get_opacity / clutter_actor_set_opacity                   *)
(***************************************************************************)
RECURSIVE GetOpacityOwnParent(_, _)
GetOpacityOwnParent(acts, self) ==
    LET parent == acts[self].parent_actor IN
    IF parent # NULL /\ acts[parent].opacity # 255
    THEN Guint8((acts[parent].opacity * acts[self].opacity) \div 255)
    ELSE acts[self].opacity

RECURSIVE GetOpacityImpl(_, _)
GetOpacityImpl(acts, self) ==
    LET parent == acts[self].parent_actor IN
    IF parent # NULL /\ GetOpacityImpl(acts, parent) # 255
    THEN Guint8((GetOpacityImpl(acts, parent) * acts[self].opacity) \div 255)
    ELSE acts[self].opacity

get_opacity(acts, self) == GetOpacityImpl(acts, self)

clutter_actor_get_opacity(self) ==
    /\ gl' = <<>>
    /\ applied' = <<>>
    /\ emitted' = <<>>
    /\ last' = [NoCall EXCEPT !.op = "get_opacity", !.self = self,
                              !.ret = << get_opacity(actors, self) >>,
                              !.was_visible = CLUTTER_ACTOR_IS_VISIBLE(actors[self])]
    /\ UNCHANGED <<mem, behave, actors, id_counter, destroy_emitted, walk, delivered, update_idle, pick_mode, bitmasks, actor_hash,
                   idle_sources, next_source, tick, redraws, ncalls>>

GetOpacity == \E self \in Actors : clutter_actor_get_opacity(self)

\* parent links: the chain shapes, and every other actor a child of actor 1
TreeShapes == ChainShapes \cup { [a \in Actors |-> IF a = 1 THEN NULL ELSE 1] }

OpacitySamples == {0, 1, 2, 127, 128, 129, 254, 255}

\* sampled opacities on every shape, and the full range on a parent and its child
InitOpacity ==
    /\ \/ \E sh \in TreeShapes, op \in [Actors -> OpacitySamples] :
            actors = [a \in Actors |->
               [Created(0)[a] EXCEPT !.parent_actor = sh[a],
                                     !.opacity = op[a],
                                     !.flags = Visible]]
       \/ \E po \in 0..255, co \in 0..255 :
            actors = [a \in Actors |->
               [Created(0)[a] EXCEPT !.parent_actor = IF a = 2 THEN 1 ELSE NULL,
                                     !.opacity = IF a = 1 THEN po
                                                 ELSE IF a = 2 THEN co ELSE 255,
                                     !.flags = Visible]]
    /\ id_counter = NActors
    /\ actor_hash = HashOf(actors)
    /\ pick_mode = "NONE"
    /\ bitmasks = <<8, 8, 8>>
    /\ InitRest

NextOpacity == GetOpacity
SpecOpacity == InitOpacity /\ [][NextOpacity]_vars

(***************************************************************************)
(* C4: get_opacity returns the actor's own opacity when it has no parent,  *)
(* otherwise floor(effective(parent) * own / 255); the result is in        *)
(* 0..255 and exceeds neither the actor's own opacity nor the parent's     *)
(* effective opacity; for the chain 255, 128, 255 the leaf's is 128.       *)
(***************************************************************************)
RECURSIVE Effective(_)
Effective(a) ==
    IF actors[a].parent_actor = NULL THEN actors[a].opacity
    ELSE (Effective(actors[a].parent_actor) * actors[a].opacity) \div 255

IsChain255_128_255(a) ==
    LET m == actors[a].parent_actor IN
    /\ m # NULL
    /\ actors[m].parent_actor # NULL
    /\ actors[actors[m].parent_actor].parent_actor = NULL
    /\ actors[actors[m].parent_actor].opacity = 255
    /\ actors[m].opacity = 128
    /\ actors[a].opacity = 255

C4_OpacityInheritance ==
    last.op = "get_opacity" =>
        LET a == last.self
            v == last.ret[1]
            parent == actors[a].parent_actor
        IN
        /\ v = Effective(a)
        /\ v \in 0..255
        /\ v <= actors[a].opacity
        /\ parent # NULL => v <= Effective(parent)
        /\ IsChain255_128_255(a) => v = 128

C4_Witness ==
    /\ last.op = "get_opacity"
    /\ IsChain255_128_255(last.self)
    /\ last.ret = << 128 >>

(***************************************************************************)
(* Property setters.  Each is given as its effect on the private state p:  *)
(* [p: the new state, redraw: calls of clutter_actor_queue_redraw,         *)
(*  notes: the property notifications and signals, in order,               *)
(*  fns: the flag-changing functions it ran].                              *)
(***************************************************************************)
Effect(p, redraw, notes, fns) ==
    [p |-> p, redraw |-> redraw, notes |-> notes, fns |-> fns]

Notify(cond, name) == IF cond THEN << name >> ELSE <<>>

clutter_actor_real_request_coords(p, box) == [p EXCEPT !.coords = box]

clutter_actor_request_coords(p, box) ==
    LET x_change == p.coords.x1 # box.x1
        y_change == p.coords.y1 # box.y1
        width_change == (p.coords.x2 - p.coords.x1) # (box.x2 - box.x1)
        height_change == (p.coords.y2 - p.coords.y1) # (box.y2 - box.y1)
        p1 == clutter_actor_real_request_coords(p, box)
    IN
    IF x_change \/ y_change \/ width_change \/ height_change
    THEN Effect(p1, Queued(CLUTTER_ACTOR_IS_VISIBLE(p1)),
                Notify(x_change, "x") \o Notify(y_change, "y")
                \o Notify(width_change, "width") \o Notify(height_change, "height"),
                {})
    ELSE Effect(p, 0, <<>>, {})

SetDepthUnmaps(p, depth) ==
    IF p.z # depth
    THEN LET p1 == [p EXCEPT !.z = depth, !.flags = @ \ {"MAPPED"}] IN
         Effect(p1, Queued(CLUTTER_ACTOR_IS_VISIBLE(p)), << "depth" >>, {})
    ELSE Effect(p, 0, <<>>, {})

\* the container's depth re-sort (clutter_container_sort_depth_order) reorders
\* the parent's child list only
clutter_actor_set_depth(p, depth) ==
    IF p.z # depth
    THEN LET p1 == [p EXCEPT !.z = depth] IN
         Effect(p1, Queued(CLUTTER_ACTOR_IS_VISIBLE(p1)), << "depth" >>, {})
    ELSE Effect(p, 0, <<>>, {})

clutter_actor_set_scalex(p, scale_x, scale_y) ==
    LET p1 == [p EXCEPT !.scale_x = scale_x, !.scale_y = scale_y] IN
    Effect(p1, Queued(CLUTTER_ACTOR_IS_VISIBLE(p1)), << "scale-x", "scale-y" >>, {})

clutter_actor_set_opacity(p, opacity) ==
    LET p1 == [p EXCEPT !.opacity = Guint8(opacity)] IN
    Effect(p1, Queued(CLUTTER_ACTOR_IS_VISIBLE(p1)), <<>>, {})

clutter_actor_set_rotationx(p, axis, angle, x, y, z) ==
    LET p1 == CASE axis = "X" -> [p EXCEPT !.rxang = angle, !.rxy = y, !.rxz = z]
                [] axis = "Y" -> [p EXCEPT !.ryang = angle, !.ryx = x, !.ryz = z]
                [] axis = "Z" -> [p EXCEPT !.rzang = angle, !.rzx = x, !.rzy = y]
    IN Effect(p1, Queued(CLUTTER_ACTOR_IS_VISIBLE(p1)), <<>>, {})

clutter_actor_set_clip(p, xoff, yoff, width, height) ==
    LET p1 == [p EXCEPT !.clip = [x |-> xoff, y |-> yoff,
                                  width |-> width, height |-> height],
                        !.has_clip = TRUE]
    IN Effect(p1, 0, << "has-clip", "clip" >>, {})

clutter_actor_remove_clip(p) ==
    Effect([p EXCEPT !.has_clip = FALSE], 0, << "has-clip" >>, {})

clutter_actor_set_anchor_pointu(p, anchor_x, anchor_y) ==
    Effect([p EXCEPT !.anchor_x = anchor_x, !.anchor_y = anchor_y], 0, <<>>, {})

clutter_actor_set_reactive(p, reactive) ==
    IF reactive = CLUTTER_ACTOR_IS_REACTIVE(p) THEN Effect(p, 0, <<>>, {})
    ELSE IF reactive THEN Effect([p EXCEPT !.flags = @ \cup {"REACTIVE"}], 0, <<>>, {})
    ELSE Effect([p EXCEPT !.flags = @ \ {"REACTIVE"}], 0, <<>>, {})

(***************************************************************************)
(* show / hide / realize / unrealize as effects.                           *)
(***************************************************************************)
RealShowSkipsRealize(p, ok) ==
    IF ~CLUTTER_ACTOR_IS_VISIBLE(p)
    THEN LET p2 == IF ~IS_TOPLEVEL(p) THEN [p EXCEPT !.flags = @ \cup {"MAPPED"}]
                   ELSE p
         IN Effect(p2, Queued(CLUTTER_ACTOR_IS_VISIBLE(p2)), <<>>, {"real_show"})
    ELSE Effect(p, 0, <<>>, {})

clutter_actor_real_show(p, ok) ==
    IF ~CLUTTER_ACTOR_IS_VISIBLE(p)
    THEN LET p1 == clutter_actor_realize(p, ok)
             p2 == IF ~IS_TOPLEVEL(p1) THEN [p1 EXCEPT !.flags = @ \cup {"MAPPED"}]
                   ELSE p1
         IN Effect(p2, Queued(CLUTTER_ACTOR_IS_VISIBLE(p2)), <<>>,
                   {"real_show"} \cup (IF CLUTTER_ACTOR_IS_REALIZED(p) THEN {}
                                       ELSE {"realize"}))
    ELSE Effect(p, 0, <<>>, {})

clutter_actor_show(p, ok) ==
    IF ~CLUTTER_ACTOR_IS_VISIBLE(p)
    THEN LET e == clutter_actor_real_show(p, ok) IN
         Effect(e.p, e.redraw, << "show" >> \o e.notes \o << "visible" >>, e.fns)
    ELSE Effect(p, 0, <<>>, {})

clutter_actor_real_hide(p) ==
    IF CLUTTER_ACTOR_IS_VISIBLE(p)
    THEN LET p1 == IF ~IS_TOPLEVEL(p) THEN [p EXCEPT !.flags = @ \ {"MAPPED"}]
                   ELSE p
         IN Effect(p1, 1, <<>>, {"real_hide"})
    ELSE Effect(p, 0, <<>>, {})

clutter_actor_hide(p) ==
    IF CLUTTER_ACTOR_IS_VISIBLE(p)
    THEN LET e == clutter_actor_real_hide(p) IN
         Effect(e.p, e.redraw, << "hide" >> \o e.notes \o << "visible" >>, e.fns)
    ELSE Effect(p, 0, <<>>, {})

RealizeEffect(p, ok) ==
    Effect(clutter_actor_realize(p, ok), 0, <<>>,
           IF CLUTTER_ACTOR_IS_REALIZED(p) THEN {} ELSE {"realize"})

UnrealizeEffect(p) ==
    Effect(clutter_actor_unrealize(p), 0, <<>>,
           IF CLUTTER_ACTOR_IS_REALIZED(p) THEN {"unrealize"} ELSE {})

(***************************************************************************)
(* Attach / detach.  pp: the private state of the parent.                  *)
(***************************************************************************)
SetParentAllowsSelf(self, p, parent) ==
    p.parent_actor # NULL \/ IS_TOPLEVEL(p)

SetParentIgnoresParent(self, p, parent) ==
    self = parent \/ IS_TOPLEVEL(p)

SetParentRefused(self, p, parent) ==
    self = parent \/ p.parent_actor # NULL \/ IS_TOPLEVEL(p)

clutter_actor_set_parent(self, p, parent, pp, ok) ==
    IF SetParentRefused(self, p, parent) THEN Effect(p, 0, <<>>, {})
    ELSE LET p1 == [p EXCEPT !.parent_actor = parent]
             p2 == IF CLUTTER_ACTOR_IS_REALIZED(pp) THEN clutter_actor_realize(p1, ok)
                   ELSE p1
         IN Effect(p2,
                   Queued(CLUTTER_ACTOR_IS_VISIBLE(pp) /\ CLUTTER_ACTOR_IS_VISIBLE(p2)),
                   << "parent-set" >>,
                   IF CLUTTER_ACTOR_IS_REALIZED(pp) /\ ~CLUTTER_ACTOR_IS_REALIZED(p1)
                   THEN {"realize"} ELSE {})

clutter_actor_unparent(p) ==
    IF p.parent_actor = NULL THEN Effect(p, 0, <<>>, {})
    ELSE LET e == IF CLUTTER_ACTOR_IS_REALIZED(p)
                  THEN IF "IN_REPARENT" \in p.private_flags
                       THEN clutter_actor_hide(p)
                       ELSE UnrealizeEffect(p)
                  ELSE Effect(p, 0, <<>>, {})
         IN Effect([e.p EXCEPT !.parent_actor = NULL], e.redraw,
                   e.notes \o << "parent-set" >>, e.fns)

CLUTTER_IS_CONTAINER(acts, a) == a # NULL /\ acts[a].is_container

\* clutter_container_remove_actor / clutter_container_add_actor: the container
\* detaches the child with clutter_actor_unparent and attaches it with
\* clutter_actor_set_parent
clutter_container_remove_actor(p) == clutter_actor_unparent(p)
clutter_container_add_actor(self, p, parent, pp, ok) ==
    clutter_actor_set_parent(self, p, parent, pp, ok)

ReparentRefused(self, p, new_parent) == self = new_parent \/ IS_TOPLEVEL(p)

\* [p, redraw, notes, fns, removed, inserted]: the effect, and whether the
\* identifier was removed from / inserted into ctx->actor_hash
clutter_actor_reparent(acts, self, new_parent, ok) ==
    LET p == acts[self]
        np == acts[new_parent]
        none == [p |-> p, redraw |-> 0, notes |-> <<>>, fns |-> {},
                 removed |-> FALSE, inserted |-> FALSE]
    IN
    IF ReparentRefused(self, p, new_parent) \/ p.parent_actor = new_parent THEN none
    ELSE
    LET in_reparent == CLUTTER_ACTOR_IS_REALIZED(p) /\ CLUTTER_ACTOR_IS_REALIZED(np)
        p1 == IF in_reparent THEN [p EXCEPT !.private_flags = @ \cup {"IN_REPARENT"}]
              ELSE p
        old_container == CLUTTER_IS_CONTAINER(acts, p1.parent_actor)
        e1 == IF old_container THEN clutter_container_remove_actor(p1)
              ELSE Effect([p1 EXCEPT !.parent_actor = NULL], 0, <<>>, {})
        new_container == CLUTTER_IS_CONTAINER(acts, new_parent)
        e2 == IF new_container
              THEN clutter_container_add_actor(self, e1.p, new_parent, np, ok)
              ELSE Effect([e1.p EXCEPT !.parent_actor = new_parent], 0, <<>>, {})
        p3 == [e2.p EXCEPT !.private_flags = @ \ {"IN_REPARENT"}]
    IN [p |-> p3,
        redraw |-> e1.redraw + e2.redraw + Queued(in_reparent),
        notes |-> e1.notes \o e2.notes,
        fns |-> e1.fns \cup e2.fns,
        removed |-> old_container,
        inserted |-> new_container]

HashInsert(hash, id, self) ==
    [i \in DOMAIN hash \cup {id} |-> IF i = id THEN self ELSE hash[i]]
HashRemove(hash, id) == [i \in DOMAIN hash \ {id} |-> hash[i]]

(***************************************************************************)
(* An API call on one actor: its effect applied to the state.              *)
(* same: the call passes the value the property already holds.             *)
(***************************************************************************)
RECURSIVE QueueTimes(_, _)
QueueTimes(n, c) ==
    IF n = 0 THEN c ELSE QueueTimes(n - 1, clutter_actor_queue_redraw(c))

ApiCallHash(op, self, arg, same, e, hash) ==
    /\ actors' = [actors EXCEPT ![self] = e.p]
    /\ SetCtx(QueueTimes(e.redraw, Ctx))
    /\ gl' = <<>>
    /\ applied' = <<>>
    /\ emitted' = e.notes
    /\ last' = [NoCall EXCEPT !.op = op, !.self = self, !.arg = arg, !.same = same,
                              !.was_visible = CLUTTER_ACTOR_IS_VISIBLE(actors[self]),
                              !.queued = e.redraw, !.fns = e.fns]
    /\ ncalls' = ncalls + 1
    /\ actor_hash' = hash
    /\ UNCHANGED <<mem, behave, id_counter, destroy_emitted, walk, delivered, pick_mode, bitmasks, redraws>>

ApiCall(op, self, arg, same, e) == ApiCallHash(op, self, arg, same, e, actor_hash)

BoxArgs == { ZeroBox, MoveTo(Pixels(4, 2), CLUTTER_UNITS_FROM_INT(2), CLUTTER_UNITS_FROM_INT(3)) }
DepthArgs == Depths
ScaleArgs == { <<CFX_ONE, CFX_ONE>>, <<CFX_HALF, CFX_ONE>> }
OpacityArgs == { 255, 128 }
RotationArgs == { <<"X", Angle45, 0, 5, 6>>, <<"Y", Angle45, 3, 0, 4>>,
                  <<"Z", Angle45, 1, 2, 0>>, <<"Z", 0, 0, 0, 0>> }
AnchorArgs == { <<0, 0>>, <<CLUTTER_UNITS_FROM_INT(1), 0>> }

RequestCoords ==
    \E self \in Actors, box \in BoxArgs :
        ApiCall("request_coords", self, << box >>,
                /\ actors[self].coords.x1 = box.x1
                /\ actors[self].coords.y1 = box.y1
                /\ actors[self].coords.x2 - actors[self].coords.x1 = box.x2 - box.x1
                /\ actors[self].coords.y2 - actors[self].coords.y1 = box.y2 - box.y1,
                clutter_actor_request_coords(actors[self], box))

SetDepth ==
    \E self \in Actors, depth \in DepthArgs :
        ApiCall("set_depth", self, << depth >>, actors[self].z = depth,
                clutter_actor_set_depth(actors[self], depth))

SetScalex ==
    \E self \in Actors, sc \in ScaleArgs :
        ApiCall("set_scalex", self, sc,
                actors[self].scale_x = sc[1] /\ actors[self].scale_y = sc[2],
                clutter_actor_set_scalex(actors[self], sc[1], sc[2]))

SetOpacity ==
    \E self \in Actors, opacity \in OpacityArgs :
        ApiCall("set_opacity", self, << opacity >>, actors[self].opacity = opacity,
                clutter_actor_set_opacity(actors[self], opacity))

SetRotationx ==
    \E self \in Actors, r \in RotationArgs :
        LET p == actors[self] IN
        ApiCall("set_rotationx", self, r,
                CASE r[1] = "X" -> p.rxang = r[2] /\ p.rxy = r[4] /\ p.rxz = r[5]
                  [] r[1] = "Y" -> p.ryang = r[2] /\ p.ryx = r[3] /\ p.ryz = r[5]
                  [] r[1] = "Z" -> p.rzang = r[2] /\ p.rzx = r[3] /\ p.rzy = r[4],
                clutter_actor_set_rotationx(p, r[1], r[2], r[3], r[4], r[5]))

SetClip ==
    \E self \in Actors :
        ApiCall("set_clip", self,
                << ClipRect.x, ClipRect.y, ClipRect.width, ClipRect.height >>,
                actors[self].has_clip /\ actors[self].clip = ClipRect,
                clutter_actor_set_clip(actors[self], ClipRect.x, ClipRect.y,
                                       ClipRect.width, ClipRect.height))

RemoveClip ==
    \E self \in Actors :
        ApiCall("remove_clip", self, <<>>, ~actors[self].has_clip,
                clutter_actor_remove_clip(actors[self]))

SetAnchorPointu ==
    \E self \in Actors, an \in AnchorArgs :
        ApiCall("set_anchor_pointu", self, an,
                actors[self].anchor_x = an[1] /\ actors[self].anchor_y = an[2],
                clutter_actor_set_anchor_pointu(actors[self], an[1], an[2]))

SetReactive ==
    \E self \in Actors, reactive \in BOOLEAN :
        ApiCall("set_reactive", self, << reactive >>,
                CLUTTER_ACTOR_IS_REACTIVE(actors[self]) = reactive,
                clutter_actor_set_reactive(actors[self], reactive))

Show ==
    \E self \in Actors, ok \in BOOLEAN :
        ApiCall("show", self, << ok >>, CLUTTER_ACTOR_IS_VISIBLE(actors[self]),
                clutter_actor_show(actors[self], ok))

Hide ==
    \E self \in Actors :
        ApiCall("hide", self, <<>>, ~CLUTTER_ACTOR_IS_VISIBLE(actors[self]),
                clutter_actor_hide(actors[self]))

Realize ==
    \E self \in Actors, ok \in BOOLEAN :
        ApiCall("realize", self, << ok >>, CLUTTER_ACTOR_IS_REALIZED(actors[self]),
                RealizeEffect(actors[self], ok))

Unrealize ==
    \E self \in Actors :
        ApiCall("unrealize", self, <<>>, ~CLUTTER_ACTOR_IS_REALIZED(actors[self]),
                UnrealizeEffect(actors[self]))

SetParent ==
    \E self \in Actors, parent \in Actors, ok \in BOOLEAN :
        LET p == actors[self] IN
        ApiCallHash("set_parent", self, << parent, ok >>, p.parent_actor = parent,
                    clutter_actor_set_parent(self, p, parent, actors[parent], ok),
                    IF SetParentRefused(self, p, parent) THEN actor_hash
                    ELSE HashInsert(actor_hash, p.id, self))

Unparent ==
    \E self \in Actors :
        LET p == actors[self] IN
        ApiCallHash("unparent", self, <<>>, p.parent_actor = NULL,
                    clutter_actor_unparent(p),
                    IF p.parent_actor = NULL THEN actor_hash
                    ELSE HashRemove(actor_hash, p.id))

(***************************************************************************)
(* clutter_actor_destroy and clutter_actor_dispose.  The actors of the     *)
(* model stay referenced by the application, so no g_object_unref frees    *)
(* one; reference counts are not part of the state.                        *)
(* reenter: a handler of the 'destroy' signal calls clutter_actor_destroy  *)
(* on the actor again.                                                     *)
(* Result: [p, redraw, notes, fns, removed, destroys].                     *)
(***************************************************************************)
IN_DESTRUCTION(p) == "IN_DESTRUCTION" \in p.private_flags

RECURSIVE clutter_actor_destroy(_, _, _)

\* g_object_run_dispose -> clutter_actor_dispose
clutter_actor_dispose(acts, self, reenter) ==
    LET p == acts[self] IN
    IF ~IN_DESTRUCTION(p)
    THEN LET p1 == [p EXCEPT !.private_flags = @ \cup {"IN_DESTRUCTION"}]
             \* g_signal_emit (self, actor_signals[DESTROY], 0): the handlers run
             h == IF reenter
                  THEN clutter_actor_destroy([acts EXCEPT ![self] = p1], self, FALSE)
                  ELSE [p |-> p1, redraw |-> 0, notes |-> <<>>, fns |-> {},
                        removed |-> FALSE, destroys |-> 0]
         IN [h EXCEPT !.p = [h.p EXCEPT !.private_flags = @ \ {"IN_DESTRUCTION"}],
                      !.notes = << "destroy" >> \o h.notes,
                      !.destroys = 1 + h.destroys]
    ELSE [p |-> p, redraw |-> 0, notes |-> <<>>, fns |-> {},
          removed |-> FALSE, destroys |-> 0]

clutter_actor_destroy(acts, self, reenter) ==
    LET p == acts[self] IN
    IF IS_TOPLEVEL(p)
    THEN [p |-> p, redraw |-> 0, notes |-> <<>>, fns |-> {},
          removed |-> FALSE, destroys |-> 0]
    ELSE
    LET by_container == p.parent_actor # NULL /\ CLUTTER_IS_CONTAINER(acts, p.parent_actor)
        e1 == IF p.parent_actor = NULL THEN Effect(p, 0, <<>>, {})
              ELSE IF by_container THEN clutter_container_remove_actor(p)
              ELSE Effect([p EXCEPT !.parent_actor = NULL], 0, <<>>, {})
        d == IF ~IN_DESTRUCTION(e1.p)
             THEN clutter_actor_dispose([acts EXCEPT ![self] = e1.p], self, reenter)
             ELSE [p |-> e1.p, redraw |-> 0, notes |-> <<>>, fns |-> {},
                   removed |-> FALSE, destroys |-> 0]
    IN [p |-> d.p,
        redraw |-> e1.redraw + d.redraw,
        notes |-> e1.notes \o d.notes,
        fns |-> e1.fns \cup d.fns,
        removed |-> by_container \/ d.removed,
        destroys |-> d.destroys]

Destroy ==
    \E self \in Actors, reenter \in BOOLEAN :
        LET p == actors[self]
            r == clutter_actor_destroy(actors, self, reenter)
        IN
        /\ actors' = [actors EXCEPT ![self] = r.p]
        /\ actor_hash' = IF r.removed THEN HashRemove(actor_hash, p.id) ELSE actor_hash
        /\ SetCtx(QueueTimes(r.redraw, Ctx))
        /\ destroy_emitted' = [destroy_emitted EXCEPT ![self] = @ + r.destroys]
        /\ gl' = <<>>
        /\ applied' = <<>>
        /\ emitted' = r.notes
        /\ last' = [NoCall EXCEPT !.op = "destroy", !.self = self, !.arg = << reenter >>,
                                  !.same = destroy_emitted[self] > 0,
                                  !.was_visible = CLUTTER_ACTOR_IS_VISIBLE(p),
                                  !.queued = r.redraw, !.fns = r.fns]
        /\ ncalls' = ncalls + 1
        /\ UNCHANGED <<mem, behave, id_counter, delivered, walk, pick_mode, bitmasks, redraws>>

Reparent ==
    \E self \in Actors, new_parent \in Actors, ok \in BOOLEAN :
        LET p == actors[self]
            r == clutter_actor_reparent(actors, self, new_parent, ok)
            h1 == IF r.removed THEN HashRemove(actor_hash, p.id) ELSE actor_hash
            h2 == IF r.inserted THEN HashInsert(h1, p.id, self) ELSE h1
        IN ApiCallHash("reparent", self, << new_parent, ok >>, p.parent_actor = new_parent,
                       Effect(r.p, r.redraw, r.notes, r.fns), h2)

QueueRedraw ==
    \E self \in Actors :
        ApiCall("queue_redraw", self, <<>>, FALSE, Effect(actors[self], 1, <<>>, {}))

(***************************************************************************)
(* redraw_update_idle, run by the main loop for a registered idle source.  *)
(* requeue: a paint handler queues a redraw during clutter_redraw.         *)
(***************************************************************************)
RedrawKeepsToken(src, requeue) ==
    LET c0 == [Ctx EXCEPT !.tick.queued = 0, !.tick.registered = 0]
        c1 == IF c0.update_idle # 0
              THEN [c0 EXCEPT !.idle_sources = @ \ {c0.update_idle}]
              ELSE c0
        c2 == IF requeue THEN clutter_actor_queue_redraw(c1) ELSE c1
        c3 == [c2 EXCEPT !.idle_sources = @ \ {src}]
    IN
    /\ src \in idle_sources
    /\ SetCtx(c3)
    /\ redraws' = redraws + 1
    /\ gl' = <<>>
    /\ applied' = <<>>
    /\ emitted' = <<>>
    /\ last' = [NoCall EXCEPT !.op = "redraw_update_idle", !.arg = << src, requeue >>,
                              !.queued = IF requeue THEN 1 ELSE 0]
    /\ UNCHANGED <<mem, behave, actors, id_counter, destroy_emitted, walk, delivered, pick_mode, bitmasks, actor_hash, ncalls>>

redraw_update_idle(src, requeue) ==
    LET c0 == [Ctx EXCEPT !.tick.queued = 0, !.tick.registered = 0]
        \* g_source_remove (ctx->update_idle); ctx->update_idle = 0
        c1 == IF c0.update_idle # 0
              THEN [c0 EXCEPT !.idle_sources = @ \ {c0.update_idle}, !.update_idle = 0]
              ELSE c0
        \* clutter_redraw ()
        c2 == IF requeue THEN clutter_actor_queue_redraw(c1) ELSE c1
        \* return FALSE: the source that ran is removed
        c3 == [c2 EXCEPT !.idle_sources = @ \ {src}]
    IN
    /\ src \in idle_sources
    /\ SetCtx(c3)
    /\ redraws' = redraws + 1
    /\ gl' = <<>>
    /\ applied' = <<>>
    /\ emitted' = <<>>
    /\ last' = [NoCall EXCEPT !.op = "redraw_update_idle", !.arg = << src, requeue >>,
                              !.queued = IF requeue THEN 1 ELSE 0]
    /\ UNCHANGED <<mem, behave, actors, id_counter, destroy_emitted, walk, delivered, pick_mode, bitmasks, actor_hash, ncalls>>

RedrawUpdateIdle ==
    \E src \in idle_sources, requeue \in BOOLEAN :
        redraws < MaxRedraws /\ redraw_update_idle(src, requeue)

(***************************************************************************)
(* The redraw scheduler: actors shown, hidden and modified, redraws        *)
(* requested directly, and the main loop running the idle source.          *)
(***************************************************************************)
InitRedraw ==
    /\ \E fl \in [Actors -> {{}, Visible}] :
         actors = [a \in Actors |-> [Created(0)[a] EXCEPT !.flags = fl[a]]]
    /\ id_counter = NActors
    /\ actor_hash = HashOf(actors)
    /\ pick_mode = "NONE"
    /\ bitmasks = <<8, 8, 8>>
    /\ InitRest

NextRedraw ==
    \/ ncalls < MaxQueued /\ Show
    \/ ncalls < MaxQueued /\ Hide
    \/ ncalls < MaxQueued /\ SetOpacity
    \/ ncalls < MaxQueued /\ QueueRedraw
    \/ RedrawUpdateIdle

SpecRedraw == InitRedraw /\ [][NextRedraw]_vars

\* C5: at most one redraw idle source is pending, and it is the one the context
\* remembers; the calls of clutter_actor_queue_redraw made since the idle source
\* last ran, however many and from whichever actors, registered exactly one
\* source; every source registered so far has run once, calling clutter_redraw
\* once, or is the pending one.
C5_RedrawCoalesced ==
    /\ Cardinality(idle_sources) <= 1
    /\ idle_sources = (IF update_idle = 0 THEN {} ELSE {update_idle})
    /\ tick.registered = (IF tick.queued > 0 THEN 1 ELSE 0)
    /\ Cardinality(idle_sources) = tick.registered
    /\ tick.scheduled = redraws + Cardinality(idle_sources)

\* five requests in one tick, the last of them from another actor than the first
C5_Witness ==
    /\ tick.queued = MaxQueued
    /\ tick.registered = 1
    /\ Cardinality(idle_sources) = 1
    /\ last.queued = 1
    /\ last.self # 1

(***************************************************************************)
(* The setters: runs of MaxCalls API calls on freshly created actors.      *)
(***************************************************************************)
InitSetters ==
    /\ \E sh \in ChainShapes, fl \in {{}, Visible} :
         actors = [a \in Actors |->
            [Created(0)[a] EXCEPT !.parent_actor = sh[a], !.flags = fl]]
    /\ id_counter = NActors
    /\ actor_hash = HashOf(actors)
    /\ pick_mode = "NONE"
    /\ bitmasks = <<8, 8, 8>>
    /\ InitRest

NextSetters ==
    \/ ncalls < MaxCalls /\ RequestCoords
    \/ ncalls < MaxCalls /\ SetDepth
    \/ ncalls < MaxCalls /\ SetScalex
    \/ ncalls < MaxCalls /\ SetOpacity
    \/ ncalls < MaxCalls /\ SetRotationx
    \/ ncalls < MaxCalls /\ SetClip
    \/ ncalls < MaxCalls /\ RemoveClip
    \/ ncalls < MaxCalls /\ SetAnchorPointu
    \/ ncalls < MaxCalls /\ SetReactive
    \/ ncalls < MaxCalls /\ Show
    \/ ncalls < MaxCalls /\ Hide
    \/ ncalls < MaxCalls /\ Realize
    \/ ncalls < MaxCalls /\ Unrealize
    \/ ncalls < MaxCalls /\ SetParent
    \/ ncalls < MaxCalls /\ Unparent
    \/ ncalls < MaxCalls /\ Paint

SpecSetters == InitSetters /\ [][NextSetters]_vars

ValueSetters == { "request_coords", "set_depth", "set_scalex", "set_opacity",
                  "set_rotationx", "set_clip" }

\* C6: a setter (request_coords, depth, scale, opacity, rotation, clip) called on a
\* visible actor with the value the property already holds queues no redraw and
\* emits no property notification.
C6_SettersIdempotent ==
    (last.op \in ValueSetters /\ last.same /\ last.was_visible)
        => (last.queued = 0 /\ emitted = <<>>)

FrameSetters == { "request_coords", "set_scalex", "set_rotationx", "set_depth",
                  "set_anchor_pointu", "set_clip", "remove_clip" }
FlagFns == { "real_show", "real_hide", "realize", "unrealize" }

\* C7: a call that sets geometry, scale, rotation, depth, anchor point or clip
\* leaves the realized and mapped flags of every actor as they were; whenever one
\* of the two flags of an actor changes, the call ran real_show, real_hide,
\* realize or unrealize on that actor.
C7_FlagsFrame ==
    [][ \A a \in Actors :
          LET before == actors[a].flags \cap Visible
              after == actors'[a].flags \cap Visible
          IN /\ last'.op \in FrameSetters => after = before
             /\ after # before => (last'.self = a /\ last'.fns \cap FlagFns # {}) ]_vars

\* a visible actor moved to another depth, still visible; earlier a flag changed
C7_Witness ==
    /\ last.op = "set_depth"
    /\ ~last.same
    /\ last.was_visible
    /\ actors[last.self].z # 0
    /\ CLUTTER_ACTOR_IS_VISIBLE(actors[last.self])
    /\ \E a \in Actors : a # last.self /\ actors[a].flags = {"REALIZED"}

(***************************************************************************)
(* Picking: actors painted while the context is in a pick mode.            *)
(***************************************************************************)
\* identifiers the first actor can have under the depths <<r, g, b>>: the ends of
\* each channel's bit field, mixed bit patterns, and the last NActors identifiers
IdBases(r, g, b) ==
    { 0, Pow2(b) - 1, Pow2(b), Pow2(g + b) - 1, Pow2(g + b),
      Pow2(20) % Pow2(r + g + b),
      11184810 % Pow2(r + g + b), 5592405 % Pow2(r + g + b),
      Pow2(r + g + b) - NActors }

AllFlags == { "REALIZED", "MAPPED", "REACTIVE" }

InitPick ==
    /\ \/ /\ bitmasks \in (1..8) \X (1..8) \X (1..8)
          /\ \E base \in IdBases(bitmasks[1], bitmasks[2], bitmasks[3]) :
               actors = [a \in Actors |->
                  [Created(base)[a] EXCEPT !.coords = Pixels(4, 2), !.flags = AllFlags]]
          /\ pick_mode = "REACTIVE"
       \/ /\ bitmasks \in { <<8, 8, 8>>, <<5, 6, 5>> }
          /\ \E fl \in SUBSET AllFlags :
               actors = [a \in Actors |->
                  [Created(0)[a] EXCEPT !.coords = Pixels(4, 2), !.flags = fl]]
          /\ pick_mode \in { "NONE", "REACTIVE", "ALL" }
    /\ id_counter = actors[NActors].id + 1
    /\ actor_hash = HashOf(actors)
    /\ InitRest

NextPick == Paint
SpecPick == InitPick /\ [][NextPick]_vars

RECURSIVE BitOr(_, _)
BitOr(x, y) ==
    IF x = 0 THEN y
    ELSE IF y = 0 THEN x
    ELSE 2 * BitOr(x \div 2, y \div 2) + (IF x % 2 = 1 \/ y % 2 = 1 THEN 1 ELSE 0)

\* the reader's decoding of a pixel <<red, green, blue, alpha>>
DecodePick(px, r, g, b) ==
    BitOr(BitOr(Shl(Shr(px[1], 8 - r), g + b), Shl(Shr(px[2], 8 - g), b)),
          Shr(px[3], 8 - b))

ColorCalls == { i \in 1..Len(gl) : gl[i].call = "color" }

\* C8: the colour a paint in pick mode hands to the pick implementation, decoded
\* with the channel depths <<r, g, b>> (each in 1..8), is the actor's identifier
\* whenever the identifier is below 2^(r+g+b).
C8_PickRoundTrip ==
    (last.op = "paint" /\ pick_mode # "NONE") =>
        \A i \in ColorCalls :
            LET id == actors[last.self].id IN
            id < Pow2(bitmasks[1] + bitmasks[2] + bitmasks[3]) =>
                DecodePick(gl[i].args, bitmasks[1], bitmasks[2], bitmasks[3]) = id

\* identifier 2^24 - 1 painted under the depths (8, 8, 8)
C8_Witness ==
    /\ last.op = "paint"
    /\ pick_mode # "NONE"
    /\ bitmasks = <<8, 8, 8>>
    /\ actors[last.self].id = Pow2(24) - 1
    /\ ColorCalls # {}

Silhouette(p) ==
    \E i \in 1..(Len(gl) - 1) :
        /\ gl[i].call = "color"
        /\ gl[i + 1] = cogl_rectangle(0, 0, CLUTTER_UNITS_TO_INT(p.coords.x2 - p.coords.x1),
                                      CLUTTER_UNITS_TO_INT(p.coords.y2 - p.coords.y1))

\* C9: a paint in pick mode that reaches the default pick implementation draws the
\* silhouette (a colour, then the rectangle of the actor's size) exactly when the
\* actor is mapped and the mode is pick-all or the actor is reactive; otherwise
\* it issues no colour and no rectangle call.
C9_PickSilhouette ==
    (last.op = "paint" /\ last.ret = << TRUE >> /\ pick_mode # "NONE") =>
        LET p == actors[last.self]
            drawn == "MAPPED" \in p.flags /\ (pick_mode = "ALL" \/ "REACTIVE" \in p.flags)
        IN /\ Silhouette(p) <=> drawn
           /\ ~drawn => \A i \in 1..Len(gl) : gl[i].call \notin { "color", "rectangle" }

\* a mapped, non-reactive actor painted in normal pick mode: nothing drawn
C9_Witness ==
    /\ last.op = "paint"
    /\ last.ret = << TRUE >>
    /\ pick_mode = "REACTIVE"
    /\ actors[last.self].flags = { "REALIZED", "MAPPED" }
    /\ Len(gl) = 2

(***************************************************************************)
(* clutter_actor_event.  general, specific, captured: what the emission of *)
(* the 'event', the type-specific and the 'captured-event' signal returns  *)
(* (TRUE: a handler handled the event).                                    *)
(***************************************************************************)
EventTypes == { "NOTHING", "BUTTON_PRESS", "BUTTON_RELEASE", "SCROLL", "KEY_PRESS",
                "KEY_RELEASE", "MOTION", "ENTER", "LEAVE", "DELETE", "DESTROY_NOTIFY",
                "CLIENT_MESSAGE", "STAGE_STATE" }

\* the switch on event->type: the signal, or "" for signal_num = -1
signal_num(type) ==
    CASE type = "BUTTON_PRESS" -> "button-press-event"
      [] type = "BUTTON_RELEASE" -> "button-release-event"
      [] type = "SCROLL" -> "scroll-event"
      [] type = "KEY_PRESS" -> "key-press-event"
      [] type = "KEY_RELEASE" -> "key-release-event"
      [] type = "MOTION" -> "motion-event"
      [] type = "ENTER" -> "enter-event"
      [] type = "LEAVE" -> "leave-event"
      [] OTHER -> ""

EventSpecificAlways(type, capture, general, specific, captured) ==
    IF capture THEN [emitted |-> << "captured-event" >>, retval |-> captured]
    ELSE IF signal_num(type) # ""
         THEN [emitted |-> << "event", signal_num(type) >>, retval |-> specific]
         ELSE [emitted |-> << "event" >>, retval |-> general]

EventReturnsUnhandled(type, capture, general, specific, captured) ==
    IF capture THEN [emitted |-> << "captured-event" >>, retval |-> captured]
    ELSE IF ~general /\ signal_num(type) # ""
         THEN [emitted |-> << "event", signal_num(type) >>, retval |-> FALSE]
         ELSE [emitted |-> << "event" >>, retval |-> FALSE]

clutter_actor_event(type, capture, general, specific, captured) ==
    IF capture THEN [emitted |-> << "captured-event" >>, retval |-> captured]
    ELSE IF ~general /\ signal_num(type) # ""
         THEN [emitted |-> << "event", signal_num(type) >>, retval |-> specific]
         ELSE [emitted |-> << "event" >>, retval |-> general]

Event ==
    \E actor \in Actors, type \in EventTypes, capture \in BOOLEAN,
       general \in BOOLEAN, specific \in BOOLEAN, captured \in BOOLEAN :
        LET r == clutter_actor_event(type, capture, general, specific, captured) IN
        /\ emitted' = r.emitted
        /\ last' = [NoCall EXCEPT !.op = "event", !.self = actor,
                                  !.arg = << type, capture, general, specific, captured >>,
                                  !.ret = << r.retval >>,
                                  !.was_visible = CLUTTER_ACTOR_IS_VISIBLE(actors[actor])]
        /\ gl' = <<>>
        /\ applied' = <<>>
        /\ UNCHANGED <<mem, behave, actors, id_counter, destroy_emitted, walk, delivered, update_idle, pick_mode, bitmasks, actor_hash,
                       idle_sources, next_source, tick, redraws, ncalls>>

InitEvent ==
    /\ \E fl \in { {}, AllFlags } :
         actors = [a \in Actors |-> [Created(0)[a] EXCEPT !.flags = fl]]
    /\ id_counter = NActors
    /\ actor_hash = HashOf(actors)
    /\ pick_mode = "NONE"
    /\ bitmasks = <<8, 8, 8>>
    /\ InitRest

NextEvent == Event
SpecEvent == InitEvent /\ [][NextEvent]_vars

\* the type-specific signal of the eight event types that have one
TypeSignal ==
    [ BUTTON_PRESS |-> "button-press-event", BUTTON_RELEASE |-> "button-release-event",
      SCROLL |-> "scroll-event", KEY_PRESS |-> "key-press-event",
      KEY_RELEASE |-> "key-release-event", MOTION |-> "motion-event",
      ENTER |-> "enter-event", LEAVE |-> "leave-event" ]

\* C10: in the bubble phase 'event' is emitted first; the type-specific signal
\* follows exactly when 'event' returned unhandled and the type is one of the
\* eight with a signal; the call returns TRUE exactly when an emitted signal
\* returned handled.  In the capture phase only 'captured-event' is emitted and
\* its result returned.
C10_EventDispatch ==
    last.op = "event" =>
        LET type == last.arg[1]
            capture == last.arg[2]
            general == last.arg[3]
            specific == last.arg[4]
            captured == last.arg[5]
            second == ~general /\ type \in DOMAIN TypeSignal
        IN IF capture
           THEN emitted = << "captured-event" >> /\ last.ret = << captured >>
           ELSE /\ Len(emitted) >= 1 /\ emitted[1] = "event"
                /\ Len(emitted) = (IF second THEN 2 ELSE 1)
                /\ second => emitted[2] = TypeSignal[type]
                /\ last.ret = << general \/ (second /\ specific) >>

\* a motion event nobody handled generally, handled by the motion handler
C10_Witness ==
    /\ last.op = "event"
    /\ last.arg = << "MOTION", FALSE, FALSE, TRUE, FALSE >>
    /\ emitted = << "event", "motion-event" >>
    /\ last.ret = << TRUE >>

(***************************************************************************)
(* The event dispatcher: a pointer event delivered to a target actor.      *)
(* Capture phase from the root down to the target, then bubble phase from  *)
(* the target up to the root; actors not flagged reactive are passed over; *)
(* a handler that returns handled ends its phase.  handlers gives, for     *)
(* every actor, what the emission of each of its signals returns.          *)
(***************************************************************************)
PointerEvents == { "BUTTON_PRESS", "BUTTON_RELEASE", "SCROLL", "MOTION", "ENTER", "LEAVE" }

\* the target and its ancestors, target first; at most n of them
RECURSIVE AncestorChain(_, _, _)
AncestorChain(acts, a, n) ==
    IF a = NULL \/ n = 0 THEN <<>>
    ELSE << a >> \o AncestorChain(acts, acts[a].parent_actor, n - 1)

Reverse(seq) == [i \in 1..Len(seq) |-> seq[Len(seq) + 1 - i]]

RECURSIVE PhaseWalk(_, _, _, _, _)
PhaseWalk(acts, order, type, capture, handlers) ==
    IF order = <<>> THEN <<>>
    ELSE LET a == Head(order) IN
         IF ~CLUTTER_ACTOR_IS_REACTIVE(acts[a])
         THEN PhaseWalk(acts, Tail(order), type, capture, handlers)
         ELSE LET r == clutter_actor_event(type, capture, handlers.general[a],
                                           handlers.specific[a], handlers.captured[a])
                  d == [actor |-> a, capture |-> capture,
                        emitted |-> r.emitted, retval |-> r.retval]
              IN IF r.retval THEN << d >>
                 ELSE << d >> \o PhaseWalk(acts, Tail(order), type, capture, handlers)

Handled(phases) == \E i \in 1..Len(phases) : phases[i].retval

Dispatch ==
    \E target \in Actors, type \in PointerEvents,
       general \in [Actors -> BOOLEAN], specific \in [Actors -> BOOLEAN],
       capturer \in Actors \cup {NULL} :
        LET handlers == [general |-> general, specific |-> specific,
                         captured |-> [a \in Actors |-> a = capturer]]
            chain == AncestorChain(actors, target, NActors)
            down == PhaseWalk(actors, Reverse(chain), type, TRUE, handlers)
            up == PhaseWalk(actors, chain, type, FALSE, handlers)
        IN
        /\ delivered' = down \o up
        /\ last' = [NoCall EXCEPT !.op = "dispatch", !.self = target,
                                  !.arg = << type, handlers >>,
                                  !.ret = << Handled(down \o up) >>]
        /\ emitted' = <<>>
        /\ gl' = <<>>
        /\ applied' = <<>>
        /\ ncalls' = ncalls + 1
        /\ UNCHANGED <<mem, behave, actors, id_counter, destroy_emitted, walk, update_idle, pick_mode, bitmasks, actor_hash,
                       idle_sources, next_source, tick, redraws>>

InitDispatch ==
    /\ \E sh \in ChainShapes, re \in SUBSET Actors :
         actors = [a \in Actors |->
            [Created(0)[a] EXCEPT !.parent_actor = sh[a],
                                  !.flags = IF a \in re THEN AllFlags ELSE Visible]]
    /\ id_counter = NActors
    /\ actor_hash = HashOf(actors)
    /\ pick_mode = "NONE"
    /\ bitmasks = <<8, 8, 8>>
    /\ InitRest

NextDispatch == ncalls < MaxDispatches /\ Dispatch
SpecDispatch == InitDispatch /\ [][NextDispatch]_vars

\* the number of bubble-phase deliveries to actor a
BubbleRuns(a) ==
    Cardinality({ i \in 1..Len(delivered) :
                    delivered[i].actor = a /\ ~delivered[i].capture })

\* root 1 - middle 2 - leaf 3, all reactive; a press dispatched at the leaf, not
\* handled in the capture phase nor by the leaf; the middle's handler handles it
PressHandledByMiddle ==
    /\ last.op = "dispatch" /\ last.self = 3 /\ last.arg[1] = "BUTTON_PRESS"
    /\ actors[3].parent_actor = 2 /\ actors[2].parent_actor = 1
    /\ actors[1].parent_actor = NULL
    /\ \A a \in 1..3 : "REACTIVE" \in actors[a].flags
    /\ \A a \in 1..3 : ~last.arg[2].captured[a]
    /\ ~last.arg[2].general[3] /\ ~last.arg[2].specific[3]
    /\ last.arg[2].general[2] \/ last.arg[2].specific[2]

\* C11: in the chain root - middle - leaf, a pointer press dispatched at the leaf
\* whose bubble-phase handler at the middle returns handled runs the handlers of
\* the leaf and of the middle once each and never the bubble handler of the root.
C11_EventShortCircuit ==
    PressHandledByMiddle =>
        /\ BubbleRuns(3) = 1
        /\ BubbleRuns(2) = 1
        /\ BubbleRuns(1) = 0

\* the middle's general handler passes, its press handler handles
C11_Witness ==
    /\ PressHandledByMiddle
    /\ ~last.arg[2].general[2]
    /\ last.arg[2].general[1]
    /\ last.ret = << TRUE >>

\* the actors of the last dispatch's chain that are nearer the target than a
NearerTarget(a) ==
    LET chain == AncestorChain(actors, last.self, NActors) IN
    { chain[i] : i \in { j \in 1..Len(chain) :
                           \E k \in (j + 1)..Len(chain) : chain[k] = a } }

BubbleHandledAt(a) ==
    \E i \in 1..Len(delivered) :
        delivered[i].actor = a /\ ~delivered[i].capture /\ delivered[i].retval

InitTree ==
    /\ \E sh \in ChainShapes, co \in SUBSET Actors, fl \in {{}, Visible} :
         actors = [a \in Actors |->
            [Created(0)[a] EXCEPT !.parent_actor = sh[a],
                                  !.is_container = a \in co,
                                  !.flags = fl]]
    /\ id_counter = NActors
    /\ actor_hash = HashOf(actors)
    /\ pick_mode = "NONE"
    /\ bitmasks = <<8, 8, 8>>
    /\ InitRest

NextTree ==
    \/ ncalls < MaxCalls /\ SetParent
    \/ ncalls < MaxCalls /\ Unparent
    \/ ncalls < MaxCalls /\ Reparent

SpecTree == InitTree /\ [][NextTree]_vars

\* a is reached from a by following parent links
OwnAncestor(acts, a) ==
    \E i \in 1..NActors :
        LET up == AncestorChain(acts, acts[a].parent_actor, NActors) IN
        i <= Len(up) /\ up[i] = a

Forest(acts) == \A a \in Actors : ~OwnAncestor(acts, a)

\* b has a among its proper ancestors
DescendantOf(acts, b, a) ==
    LET up == AncestorChain(acts, acts[b].parent_actor, NActors) IN
    \E i \in 1..Len(up) : up[i] = a

\* C13 as claimed: after any sequence of set_parent, unparent and reparent calls no
\* actor is its own ancestor.
C13_Forest == Forest(actors)

\* C13 as amended: a set_parent, unparent or reparent call made on a forest leaves a
\* forest unless the parent it is given is a descendant of the actor it is called on.
C13_ForestUnlessDescendant ==
    [][ (/\ Forest(actors)
         /\ last'.op \in { "set_parent", "reparent", "unparent" }
         /\ last'.op # "unparent" => ~DescendantOf(actors, last'.arg[1], last'.self))
        => Forest(actors') ]_vars

\* an actor moved under another tree's leaf by reparent, after an attach
C13_Witness ==
    /\ last.op = "reparent"
    /\ ~last.same
    /\ actors[last.self].parent_actor = last.arg[1]
    /\ actors[last.arg[1]].parent_actor # NULL
    /\ Forest(actors)
    /\ ncalls = MaxCalls

(***************************************************************************)
(* The recursive ancestor walks, one call frame at a time:                 *)
(* _clutter_actor_apply_modelview_transform_recursive ("transform", under  *)
(* get_vertices, apply_transform_to_point, get_abs_position, get_abs_size) *)
(* and clutter_actor_get_opacity ("opacity").  A frame whose actor has a   *)
(* parent first calls itself on the parent; the frame of a parentless      *)
(* actor returns, and then so do the frames that wait for it.              *)
(***************************************************************************)
WalkFns == { "transform", "opacity" }
NoWalk == [fn |-> "none", self |-> NULL, at |-> NULL]

WalkCall ==
    \E fn \in WalkFns, self \in Actors :
        /\ walk.fn = "none"
        /\ walk' = [fn |-> fn, self |-> self, at |-> self]
        /\ last' = [NoCall EXCEPT !.op = fn, !.self = self]
        /\ gl' = <<>> /\ applied' = <<>> /\ emitted' = <<>>
        /\ UNCHANGED <<mem, behave, actors, id_counter, destroy_emitted, delivered, update_idle, pick_mode, bitmasks,
                       actor_hash, idle_sources, next_source, tick, redraws, ncalls>>

WalkRecurse ==
    /\ walk.fn # "none"
    /\ actors[walk.at].parent_actor # NULL
    /\ walk' = [walk EXCEPT !.at = actors[walk.at].parent_actor]
    /\ UNCHANGED <<mem, behave, actors, id_counter, destroy_emitted, delivered, update_idle, pick_mode, bitmasks,
                   actor_hash, idle_sources, next_source, tick, redraws, ncalls,
                   gl, applied, emitted, last>>

WalkReturn ==
    /\ walk.fn # "none"
    /\ actors[walk.at].parent_actor = NULL
    /\ walk' = NoWalk
    /\ last' = [last EXCEPT !.ret =
                  IF walk.fn = "opacity" THEN << get_opacity(actors, walk.self) >>
                  ELSE << walk.at >>]
    /\ applied' = IF walk.fn = "transform"
                  THEN clutter_actor_apply_modelview_transform_recursive(actors, walk.self)
                  ELSE <<>>
    /\ UNCHANGED <<mem, behave, actors, id_counter, destroy_emitted, delivered, update_idle, pick_mode, bitmasks,
                   actor_hash, idle_sources, next_source, tick, redraws, ncalls,
                   gl, emitted>>

InitWalk ==
    /\ \E sh \in ChainShapes :
         actors = [a \in Actors |->
            [Created(0)[a] EXCEPT !.parent_actor = sh[a], !.opacity = 128]]
    /\ id_counter = NActors
    /\ actor_hash = HashOf(actors)
    /\ pick_mode = "NONE"
    /\ bitmasks = <<8, 8, 8>>
    /\ InitRest

NextWalk ==
    \/ walk.fn = "none" /\ ncalls < MaxCalls /\ SetParent
    \/ walk.fn = "none" /\ ncalls < MaxCalls /\ Unparent
    \/ walk.fn = "none" /\ ncalls < MaxCalls /\ Reparent
    \/ WalkCall
    \/ WalkRecurse
    \/ WalkReturn

\* a call in progress keeps running
SpecWalk == InitWalk /\ [][NextWalk]_vars /\ WF_vars(WalkRecurse \/ WalkReturn)

\* C14: over every parent relation that set_parent, unparent and reparent can
\* produce, a recursive ancestor walk (the transform accumulator,
\* clutter_actor_get_opacity) that has been called returns.
C14_WalksTerminate == (walk.fn # "none") ~> (walk.fn = "none")

(***************************************************************************)
(* Teardown: runs of MaxCalls clutter_actor_destroy / set_parent calls on  *)
(* actors that are parentless or chained, under container or plain         *)
(* parents, realized or not, with actor 1 possibly the toplevel.           *)
(***************************************************************************)
InitDestroy ==
    /\ \E sh \in ChainShapes, co \in SUBSET Actors, fl \in {{}, Visible}, tl \in BOOLEAN :
         actors = [a \in Actors |->
            [Created(0)[a] EXCEPT !.parent_actor = sh[a],
                                  !.is_container = a \in co,
                                  !.flags = fl,
                                  !.private_flags = IF tl /\ a = 1 THEN {"IS_TOPLEVEL"}
                                                    ELSE {}]]
    /\ id_counter = NActors
    /\ actor_hash = HashOf(actors)
    /\ pick_mode = "NONE"
    /\ bitmasks = <<8, 8, 8>>
    /\ InitRest

NextDestroy ==
    \/ ncalls < MaxCalls /\ Destroy
    \/ ncalls < MaxCalls /\ SetParent

SpecDestroy == InitDestroy /\ [][NextDestroy]_vars

\* C15: after clutter_actor_destroy returns for a non-toplevel actor, the actor has no
\* parent, is not realized, and its identifier is absent from the identifier table.
C15_DestroyPostcondition ==
    (last.op = "destroy" /\ ~IS_TOPLEVEL(actors[last.self]))
        => /\ actors[last.self].parent_actor = NULL
           /\ ~CLUTTER_ACTOR_IS_REALIZED(actors[last.self])
           /\ actors[last.self].id \notin DOMAIN actor_hash

\* C16: the 'destroy' signal of an actor is emitted once in total: a destroy call on an
\* actor already destroyed, or made from inside a destroy handler, emits no further
\* signal and changes no state.
C16_DestroyIdempotent ==
    [][ last'.op = "destroy"
          => /\ destroy_emitted'[last'.self] <= 1
             /\ destroy_emitted[last'.self] > 0
                  => /\ emitted' = <<>>
                     /\ actors' = actors
                     /\ actor_hash' = actor_hash ]_vars

\* C17: a set_parent call on an actor that already has a parent, is toplevel, or is the
\* parent given, and a destroy call on a toplevel actor, change nothing: parent link,
\* flags, identifier table and pending-redraw token stay as they were, and no signal
\* is emitted.
C17_RefusedCallsNoOp ==
    [][ (\/ /\ last'.op = "set_parent"
            /\ \/ actors[last'.self].parent_actor # NULL
               \/ IS_TOPLEVEL(actors[last'.self])
               \/ last'.arg[1] = last'.self
         \/ /\ last'.op = "destroy"
            /\ IS_TOPLEVEL(actors[last'.self]))
          => /\ actors' = actors
             /\ actor_hash' = actor_hash
             /\ update_idle' = update_idle
             /\ idle_sources' = idle_sources
             /\ destroy_emitted' = destroy_emitted
             /\ emitted' = <<>> ]_vars

\* the last of MaxCalls calls was a set_parent refused on a realized actor, which keeps
\* its other parent, in a scene that has a toplevel
C17_Witness ==
    /\ last.op = "set_parent"
    /\ actors[last.self].parent_actor \notin {NULL, last.arg[1]}
    /\ CLUTTER_ACTOR_IS_REALIZED(actors[last.self])
    /\ IS_TOPLEVEL(actors[1])
    /\ ncalls = MaxCalls

(***************************************************************************)
(* The geometry setters.  Each builds a ClutterActorBox and hands it to    *)
(* clutter_actor_request_coords.  The base class has no query_coords       *)
(* override, so clutter_actor_query_coords copies priv->coords.            *)
(***************************************************************************)
clutter_actor_query_coords(p) == p.coords

clutter_actor_set_geometry(p, geometry) ==
    clutter_actor_request_coords(p,
        [x1 |-> CLUTTER_UNITS_FROM_INT(geometry.x),
         y1 |-> CLUTTER_UNITS_FROM_INT(geometry.y),
         x2 |-> CLUTTER_UNITS_FROM_INT(geometry.x + geometry.width),
         y2 |-> CLUTTER_UNITS_FROM_INT(geometry.y + geometry.height)])

clutter_actor_set_position(p, x, y) ==
    LET box == clutter_actor_query_coords(p) IN
    clutter_actor_request_coords(p,
        [x1 |-> CLUTTER_UNITS_FROM_INT(x),
         y1 |-> CLUTTER_UNITS_FROM_INT(y),
         x2 |-> box.x2 + (CLUTTER_UNITS_FROM_INT(x) - box.x1),
         y2 |-> box.y2 + (CLUTTER_UNITS_FROM_INT(y) - box.y1)])

clutter_actor_move_by(p, dx, dy) ==
    LET box == clutter_actor_query_coords(p)
        dxu == CLUTTER_UNITS_FROM_INT(dx)
        dyu == CLUTTER_UNITS_FROM_INT(dy)
    IN clutter_actor_request_coords(p,
        [x1 |-> box.x1 + dxu, y1 |-> box.y1 + dyu,
         x2 |-> box.x2 + dxu, y2 |-> box.y2 + dyu])

clutter_actor_set_size_internal(p, width, height) ==
    LET box == clutter_actor_query_coords(p) IN
    clutter_actor_request_coords(p,
        [box EXCEPT !.x2 = IF width > 0 THEN box.x1 + CLUTTER_UNITS_FROM_INT(width) ELSE @,
                    !.y2 = IF height > 0 THEN box.y1 + CLUTTER_UNITS_FROM_INT(height) ELSE @])

clutter_actor_set_size(p, width, height) == clutter_actor_set_size_internal(p, width, height)
\* the guint argument as the gint parameter of set_size_internal receives it
clutter_actor_set_width(p, width) == clutter_actor_set_size_internal(p, width, -1)
clutter_actor_set_height(p, height) == clutter_actor_set_size_internal(p, -1, height)

\* arguments: a negative number, zero, a positive number
GeomArgs == { -1, 0, 2 }
PosArgs == { -1, 2 }

SetGeometry ==
    \E self \in Actors, x \in PosArgs, width \in GeomArgs, height \in GeomArgs :
        LET g == [x |-> x, y |-> 0, width |-> width, height |-> height] IN
        ApiCall("set_geometry", self, << g >>, FALSE,
                clutter_actor_set_geometry(actors[self], g))

SetPosition ==
    \E self \in Actors, x \in PosArgs, y \in PosArgs :
        ApiCall("set_position", self, << x, y >>, FALSE,
                clutter_actor_set_position(actors[self], x, y))

MoveBy ==
    \E self \in Actors, dx \in PosArgs, dy \in PosArgs :
        ApiCall("move_by", self, << dx, dy >>, FALSE,
                clutter_actor_move_by(actors[self], dx, dy))

SetSize ==
    \E self \in Actors, width \in GeomArgs, height \in GeomArgs :
        ApiCall("set_size", self, << width, height >>, FALSE,
                clutter_actor_set_size(actors[self], width, height))

SetWidth ==
    \E self \in Actors, width \in GeomArgs :
        ApiCall("set_width", self, << width >>, FALSE,
                clutter_actor_set_width(actors[self], width))

SetHeight ==
    \E self \in Actors, height \in GeomArgs :
        ApiCall("set_height", self, << height >>, FALSE,
                clutter_actor_set_height(actors[self], height))

InitBox ==
    /\ \E fl \in {{}, Visible}, box \in BoxArgs :
         actors = [a \in Actors |-> [Created(0)[a] EXCEPT !.flags = fl, !.coords = box]]
    /\ id_counter = NActors
    /\ actor_hash = HashOf(actors)
    /\ pick_mode = "NONE"
    /\ bitmasks = <<8, 8, 8>>
    /\ InitRest

NextBox ==
    \/ ncalls < MaxCalls /\ SetGeometry
    \/ ncalls < MaxCalls /\ SetPosition
    \/ ncalls < MaxCalls /\ MoveBy
    \/ ncalls < MaxCalls /\ SetSize
    \/ ncalls < MaxCalls /\ SetWidth
    \/ ncalls < MaxCalls /\ SetHeight
    \/ ncalls < MaxCalls /\ RequestCoords

SpecBox == InitBox /\ [][NextBox]_vars

\* C18: after any sequence of set_geometry, set_position, move_by, set_size, set_width,
\* set_height and request_coords calls the stored box of every actor has x2 >= x1 and
\* y2 >= y1.
C18_BoxOrdered ==
    \A a \in Actors : /\ actors[a].coords.x2 >= actors[a].coords.x1
                      /\ actors[a].coords.y2 >= actors[a].coords.y1

(***************************************************************************)
(* Coordinate queries in numbers.  A point is <<x, y, z, w>>, a matrix the *)
(* 16 ClutterFixed values of the backend, column after column.             *)
(* The fixed-point primitives come from clutter-fixed.h: products and      *)
(* quotients of 16.16 numbers, written here in pieces that stay within 32  *)
(* bits (the divisor, a w coordinate, is positive throughout).             *)
(***************************************************************************)
CFX_QMUL(a, b) ==
    LET ah == a \div CFX_ONE
        al == a % CFX_ONE
        bh == b \div CFX_ONE
        bl == b % CFX_ONE
        X == (al \div 256) * bl
        Y == (al % 256) * bl
    IN ah * bh * CFX_ONE + ah * bl + al * bh + ((X + (Y \div 256)) \div 256)

CFX_MUL(a, b) == CFX_QMUL(a, b)

CFX_DIV(a, b) ==
    LET q == a \div b
        r == a % b
        q1 == (r * 256) \div b
        r1 == (r * 256) % b
    IN q * CFX_ONE + q1 * 256 + ((r1 * 256) \div b)

M(m, row, col) == m[col * 4 + row + 1]

\* Transform point (x,y,z) by matrix
mtx_transform(m, pt) ==
    << CFX_QMUL(M(m,0,0), pt[1]) + CFX_QMUL(M(m,0,1), pt[2])
         + CFX_QMUL(M(m,0,2), pt[3]) + CFX_QMUL(M(m,0,3), pt[4]),
       CFX_QMUL(M(m,1,0), pt[1]) + CFX_QMUL(M(m,1,1), pt[2])
         + CFX_QMUL(M(m,1,2), pt[3]) + CFX_QMUL(M(m,1,3), pt[4]),
       CFX_QMUL(M(m,2,0), pt[1]) + CFX_QMUL(M(m,2,1), pt[2])
         + CFX_QMUL(M(m,2,2), pt[3]) + CFX_QMUL(M(m,2,3), pt[4]),
       CFX_QMUL(M(m,3,0), pt[1]) + CFX_QMUL(M(m,3,1), pt[2])
         + CFX_QMUL(M(m,3,2), pt[3]) + CFX_QMUL(M(m,3,3), pt[4]) >>

MTX_GL_SCALE_X(x, w, v1, v2) == CFX_MUL((CFX_DIV(x, w) + CFX_ONE) \div 2, v1) + v2
MTX_GL_SCALE_Y(y, w, v1, v2) == v1 - CFX_MUL((CFX_DIV(y, w) + CFX_ONE) \div 2, v1) + v2
MTX_GL_SCALE_Z(z, w, v1, v2) == MTX_GL_SCALE_X(z, w, v1, v2)

IdentityMatrix == << CFX_ONE, 0, 0, 0,  0, CFX_ONE, 0, 0,  0, 0, CFX_ONE, 0,  0, 0, 0, CFX_ONE >>

\* the backend's matrix stack: what cogl_get_modelview_matrix returns after the
\* translate and scale calls of `calls` were issued on the matrix m
RECURSIVE cogl_get_modelview_matrix(_, _)
cogl_get_modelview_matrix(m, calls) ==
    IF calls = <<>> THEN m
    ELSE LET c == Head(calls)
             m1 == IF c.call = "translate"
                   THEN LET t == mtx_transform(m, << CLUTTER_UNITS_FROM_INT(c.args[1]),
                                                     CLUTTER_UNITS_FROM_INT(c.args[2]),
                                                     CLUTTER_UNITS_FROM_INT(c.args[3]),
                                                     CFX_ONE >>)
                        IN [i \in 1..16 |-> IF i > 12 THEN t[i - 12] ELSE m[i]]
                   ELSE IF c.call = "scale"
                   THEN [i \in 1..16 |-> IF i <= 4 THEN CFX_QMUL(m[i], c.args[1])
                                         ELSE IF i <= 8 THEN CFX_QMUL(m[i], c.args[2])
                                         ELSE m[i]]
                   ELSE m
         IN cogl_get_modelview_matrix(m1, Tail(calls))

\* the images of the four corners under the modelview matrix: [verts, w]
TransformVerticesSwapped(mtx, p) ==
    LET c == << mtx_transform(mtx, << 0, 0, 0, CFX_ONE >>),
                mtx_transform(mtx, << 0, p.coords.y2 - p.coords.y1, 0, CFX_ONE >>),
                mtx_transform(mtx, << p.coords.x2 - p.coords.x1, 0, 0, CFX_ONE >>),
                mtx_transform(mtx, << p.coords.x2 - p.coords.x1,
                                      p.coords.y2 - p.coords.y1, 0, CFX_ONE >>) >>
    IN [verts |-> [i \in 1..4 |-> << c[i][1], c[i][2], c[i][3] >>],
        w |-> [i \in 1..4 |-> c[i][4]]]

TransformedVerts(mtx, p) ==
    LET c == << mtx_transform(mtx, << 0, 0, 0, CFX_ONE >>),
                mtx_transform(mtx, << p.coords.x2 - p.coords.x1, 0, 0, CFX_ONE >>),
                mtx_transform(mtx, << 0, p.coords.y2 - p.coords.y1, 0, CFX_ONE >>),
                mtx_transform(mtx, << p.coords.x2 - p.coords.x1,
                                      p.coords.y2 - p.coords.y1, 0, CFX_ONE >>) >>
    IN [verts |-> [i \in 1..4 |-> << c[i][1], c[i][2], c[i][3] >>],
        w |-> [i \in 1..4 |-> c[i][4]]]

\* verts[4] as clutter_actor_get_vertices fills it; v is the viewport
clutter_actor_get_vertices(p, mtx, mtx_p, v) ==
    LET t == TransformedVerts(mtx, p) IN
    [i \in 1..4 |->
        LET q == mtx_transform(mtx_p, << t.verts[i][1], t.verts[i][2], t.verts[i][3], t.w[i] >>)
        IN << MTX_GL_SCALE_X(q[1], q[4], v[3], v[1]),
              MTX_GL_SCALE_Y(q[2], q[4], v[4], v[2]),
              MTX_GL_SCALE_Z(q[3], q[4], v[3], v[1]) >>]

\* viewport <<x, y, width, height>> of a 256 x 128 window
Viewport == << 0, 0, CLUTTER_UNITS_FROM_INT(256), CLUTTER_UNITS_FROM_INT(128) >>

\* the projection under which a box unit is a device pixel and Y grows downwards:
\* x -> 2x/256 - 1, y -> 1 - 2y/128
PixelProjection ==
    << (2 * CFX_ONE) \div 256, 0, 0, 0,
       0, -((2 * CFX_ONE) \div 128), 0, 0,
       0, 0, CFX_ONE, 0,
       -CFX_ONE, CFX_ONE, 0, CFX_ONE >>

\* a projection that also halves x
HalfProjection ==
    << CFX_ONE \div 256, 0, 0, 0,
       0, -((2 * CFX_ONE) \div 128), 0, 0,
       0, 0, CFX_ONE, 0,
       -CFX_ONE, CFX_ONE, 0, CFX_ONE >>

Projections == { PixelProjection, HalfProjection }

GetVertices ==
    \E self \in Actors, mtx_p \in Projections :
        LET invs == clutter_actor_apply_modelview_transform_recursive(actors, self)
            mtx == cogl_get_modelview_matrix(IdentityMatrix, Flatten(invs))
        IN
        /\ gl' = << cogl_push_matrix >> \o Flatten(invs) \o << cogl_pop_matrix >>
        /\ applied' = invs
        /\ emitted' = <<>>
        /\ last' = [NoCall EXCEPT !.op = "get_vertices", !.self = self,
                                  !.arg = << mtx, mtx_p, Viewport >>,
                                  !.ret = clutter_actor_get_vertices(actors[self], mtx,
                                                                     mtx_p, Viewport),
                                  !.was_visible = CLUTTER_ACTOR_IS_VISIBLE(actors[self])]
        /\ UNCHANGED <<mem, behave, actors, id_counter, destroy_emitted, walk, delivered, update_idle,
                       pick_mode, bitmasks, actor_hash, idle_sources, next_source, tick,
                       redraws, ncalls>>

InitVertices ==
    /\ \E k \in Actors, sh \in ChainShapes, o \in Origins, big \in BOOLEAN,
          sc \in ScaleArgs, fl \in {{}, Visible} :
         actors = [a \in Actors |->
            [Created(0)[a] EXCEPT
               !.parent_actor = sh[a],
               !.coords = IF a = k
                          THEN MoveTo(IF big THEN Pixels(100, 50) ELSE Pixels(4, 2), o[1], o[2])
                          ELSE Pixels(4, 2),
               !.scale_x = IF a = k THEN sc[1] ELSE CFX_ONE,
               !.scale_y = IF a = k THEN sc[2] ELSE CFX_ONE,
               !.flags = fl]]
    /\ id_counter = NActors
    /\ actor_hash = HashOf(actors)
    /\ pick_mode = "NONE"
    /\ bitmasks = <<8, 8, 8>>
    /\ InitRest

NextVertices == GetVertices

SpecVertices == InitVertices /\ [][NextVertices]_vars

\* the device-space image of the local point (x, y, 0)
Image(mtx, mtx_p, v, x, y) ==
    LET q == mtx_transform(mtx_p, mtx_transform(mtx, << x, y, 0, CFX_ONE >>)) IN
    << MTX_GL_SCALE_X(q[1], q[4], v[3], v[1]),
       MTX_GL_SCALE_Y(q[2], q[4], v[4], v[2]),
       MTX_GL_SCALE_Z(q[3], q[4], v[3], v[1]) >>

Delta(a, b) == << a[1] - b[1], a[2] - b[2] >>

\* no scale in the chain of the actor
UnscaledChain(a) ==
    LET up == << a >> \o AncestorChain(actors, actors[a].parent_actor, NActors) IN
    \A i \in 1..Len(up) : actors[up[i]].scale_x = CFX_ONE /\ actors[up[i]].scale_y = CFX_ONE

\* C19: clutter_actor_get_vertices returns, in this order, the images of the local
\* corners (0,0), (w,0), (0,h), (w,h), with w = x2 - x1 and h = y2 - y1, each taken
\* through the same modelview matrix, projection matrix and device rescale; for an
\* unrotated, unscaled actor of size (100,50) under the pixel projection the deltas
\* v[1]-v[0], v[2]-v[0], v[3]-v[0] are (100,0), (0,50), (100,50).
C19_VerticesOrder ==
    last.op = "get_vertices" =>
        LET p == actors[last.self]
            w == p.coords.x2 - p.coords.x1
            h == p.coords.y2 - p.coords.y1
            verts == last.ret
        IN /\ verts[1] = Image(last.arg[1], last.arg[2], last.arg[3], 0, 0)
           /\ verts[2] = Image(last.arg[1], last.arg[2], last.arg[3], w, 0)
           /\ verts[3] = Image(last.arg[1], last.arg[2], last.arg[3], 0, h)
           /\ verts[4] = Image(last.arg[1], last.arg[2], last.arg[3], w, h)
           /\ (/\ UnscaledChain(last.self)
               /\ w = CLUTTER_UNITS_FROM_INT(100)
               /\ h = CLUTTER_UNITS_FROM_INT(50)
               /\ last.arg[2] = PixelProjection)
                => /\ Delta(verts[2], verts[1]) = << CLUTTER_UNITS_FROM_INT(100), 0 >>
                   /\ Delta(verts[3], verts[1]) = << 0, CLUTTER_UNITS_FROM_INT(50) >>
                   /\ Delta(verts[4], verts[1]) = << CLUTTER_UNITS_FROM_INT(100),
                                                     CLUTTER_UNITS_FROM_INT(50) >>

\* the vertices of an unscaled (100,50) actor placed at (2,3) under a parent were
\* queried under the pixel projection
C19_Witness ==
    /\ last.op = "get_vertices"
    /\ actors[last.self].parent_actor # NULL
    /\ actors[last.self].coords = MoveTo(Pixels(100, 50), CLUTTER_UNITS_FROM_INT(2),
                                         CLUTTER_UNITS_FROM_INT(3))
    /\ UnscaledChain(last.self)
    /\ last.arg[2] = PixelProjection
    /\ last.ret[1] = << CLUTTER_UNITS_FROM_INT(2), CLUTTER_UNITS_FROM_INT(3), last.ret[1][3] >>

(***************************************************************************)
(* clutter_actor_reparent against clutter_actor_unparent followed by       *)
(* clutter_actor_set_parent, from the same state and with the same outcome *)
(* of the realize step.                                                    *)
(***************************************************************************)
\* C20: from every state in which self has another parent, clutter_actor_reparent
\* (self, new_parent) leaves self with the same parent, the same realized and mapped
\* flags and the same identifier-table membership as clutter_actor_unparent (self)
\* followed by clutter_actor_set_parent (self, new_parent).
C20_ReparentEquivalent ==
    [][ (/\ last'.op = "reparent"
         /\ last'.arg[1] # last'.self
         /\ actors[last'.self].parent_actor \notin { NULL, last'.arg[1] })
          => LET self == last'.self
                 new_parent == last'.arg[1]
                 u == clutter_actor_unparent(actors[self])
                 s == clutter_actor_set_parent(self, u.p, new_parent, actors[new_parent],
                                               last'.arg[2])
                 h == HashInsert(HashRemove(actor_hash, actors[self].id),
                                 actors[self].id, self)
             IN /\ actors'[self].parent_actor = s.p.parent_actor
                /\ actors'[self].flags = s.p.flags
                /\ (actors[self].id \in DOMAIN actor_hash')
                      <=> (actors[self].id \in DOMAIN h) ]_vars

(***************************************************************************)
(* Visibility and the realized / mapped flags, over the calls of           *)
(* SpecSetters.                                                            *)
(***************************************************************************)
\* a call that made an unrealized actor visible ran realize on it
VisibleOnlyThroughRealize ==
    \A b \in Actors :
        (~CLUTTER_ACTOR_IS_REALIZED(actors[b]) /\ CLUTTER_ACTOR_IS_VISIBLE(actors'[b]))
            => ("realize" \in last'.fns /\ last'.self = b)

HideUnmaps ==
    (last'.op = "hide" /\ CLUTTER_ACTOR_IS_VISIBLE(actors[last'.self])
                       /\ ~IS_TOPLEVEL(actors[last'.self]))
        => /\ ~CLUTTER_ACTOR_IS_MAPPED(actors'[last'.self])
           /\ CLUTTER_ACTOR_IS_REALIZED(actors'[last'.self])

UnrealizeHides ==
    last'.op = "unrealize" => ~CLUTTER_ACTOR_IS_VISIBLE(actors'[last'.self])

\* C21 as claimed: after clutter_actor_show on a non-toplevel actor in any state the
\* actor is realized and mapped; after clutter_actor_hide on a visible non-toplevel
\* actor it is not mapped and still realized; from clutter_actor_unrealize until the
\* next realize the actor is not visible.
C21_ShowRealizesAndMaps ==
    [][ /\ (last'.op = "show" /\ ~IS_TOPLEVEL(actors[last'.self]))
            => /\ CLUTTER_ACTOR_IS_REALIZED(actors'[last'.self])
               /\ CLUTTER_ACTOR_IS_MAPPED(actors'[last'.self])
        /\ HideUnmaps
        /\ UnrealizeHides
        /\ VisibleOnlyThroughRealize ]_vars

\* C21 as amended: after clutter_actor_show on a non-toplevel actor the actor is mapped,
\* and it is realized if it was realized before or its realize handler succeeded;
\* after clutter_actor_hide on a visible non-toplevel actor it is not mapped and
\* still realized; from clutter_actor_unrealize until the next realize the actor is
\* not visible.
C21_ShowMapsRealizesIfPossible ==
    [][ /\ (last'.op = "show" /\ ~IS_TOPLEVEL(actors[last'.self]))
            => /\ CLUTTER_ACTOR_IS_MAPPED(actors'[last'.self])
               /\ (last'.arg[1] \/ CLUTTER_ACTOR_IS_REALIZED(actors[last'.self]))
                    => CLUTTER_ACTOR_IS_REALIZED(actors'[last'.self])
               /\ ~(last'.arg[1] \/ CLUTTER_ACTOR_IS_REALIZED(actors[last'.self]))
                    => ~CLUTTER_ACTOR_IS_REALIZED(actors'[last'.self])
        /\ HideUnmaps
        /\ UnrealizeHides
        /\ VisibleOnlyThroughRealize ]_vars

\* the last of MaxCalls calls was a show whose realize step succeeded and which made
\* the actor visible
C21_Witness ==
    /\ last.op = "show"
    /\ last.arg[1]
    /\ ~last.was_visible
    /\ "realize" \in last.fns
    /\ ncalls = MaxCalls
    /\ CLUTTER_ACTOR_IS_VISIBLE(actors[last.self])

(***************************************************************************)
(* clutter_actor_paint with a paint / pick handler that changes the clip   *)
(* of the actor being painted.  The handler runs between the composer and  *)
(* the test of priv->has_clip that decides the clip unset.                 *)
(***************************************************************************)
HandlerActs == { "none", "set_clip", "remove_clip" }

\* the private state after the handler ran
HandlerRuns(p, h) ==
    IF h = "set_clip" THEN clutter_actor_set_clip(p, 0, 0, 1, 1).p
    ELSE IF h = "remove_clip" THEN clutter_actor_remove_clip(p).p
    ELSE p

PaintCallsHandler(self, p, h) ==
       << cogl_push_matrix >>
    \o clutter_actor_apply_modelview_transform(p)
    \o (IF pick_mode # "NONE"
        THEN clutter_actor_real_pick(p, pick_mode,
                 PickColor(p.id, bitmasks[1], bitmasks[2], bitmasks[3]))
        ELSE << klass_paint(self) >>)
    \o If(HandlerRuns(p, h).has_clip, << cogl_clip_unset >>)
    \o << cogl_pop_matrix >>

PaintHandler ==
    \E self \in Actors, ok \in BOOLEAN, h \in HandlerActs :
        LET p0 == actors[self]
            p1 == clutter_actor_realize(p0, ok)
            aborted == ~CLUTTER_ACTOR_IS_REALIZED(p1)
        IN
        /\ actors' = [actors EXCEPT ![self] = IF aborted THEN p1 ELSE HandlerRuns(p1, h)]
        /\ gl' = IF aborted THEN <<>> ELSE PaintCallsHandler(self, p1, h)
        /\ applied' = IF aborted THEN <<>>
                      ELSE << [self |-> self,
                               ops |-> clutter_actor_apply_modelview_transform(p1)] >>
        /\ emitted' = <<>>
        /\ last' = [NoCall EXCEPT !.op = "paint", !.self = self, !.arg = << ok, h >>,
                                  !.ret = << ~aborted >>,
                                  !.was_visible = CLUTTER_ACTOR_IS_VISIBLE(p0),
                                  !.fns = IF CLUTTER_ACTOR_IS_REALIZED(p0) THEN {}
                                          ELSE {"realize"}]
        /\ UNCHANGED <<mem, behave, id_counter, destroy_emitted, walk, delivered, update_idle, pick_mode,
                       bitmasks, actor_hash, idle_sources, next_source, tick, redraws,
                       ncalls>>

InitPaint ==
    /\ \E sh \in ChainShapes, cl \in SUBSET Actors, fl \in {{}, Visible} :
         actors = [a \in Actors |->
            [Created(0)[a] EXCEPT !.parent_actor = sh[a],
                                  !.coords = Pixels(4, 2),
                                  !.has_clip = a \in cl,
                                  !.clip = IF a \in cl THEN ClipRect ELSE @,
                                  !.flags = fl]]
    /\ id_counter = NActors
    /\ actor_hash = HashOf(actors)
    /\ pick_mode \in {"NONE", "ALL"}
    /\ bitmasks = <<8, 8, 8>>
    /\ InitRest

NextPaint == PaintHandler

SpecPaint == InitPaint /\ [][NextPaint]_vars

\* positions of the backend calls named `name` in the calls of the last operation
CallsAt(name) == { i \in 1..Len(gl) : gl[i].call = name }

\* C22: every call of clutter_actor_paint issues as many clip-unset calls as clip-set
\* calls, the unset coming after the actor's own paint or pick call and right before
\* the matrix pop, also when a paint or pick handler sets or removes the clip of the
\* actor being painted.
C22_ClipBalanced ==
    (last.op = "paint")
        => /\ Cardinality(CallsAt("clip_set")) = Cardinality(CallsAt("clip_unset"))
           /\ Cardinality(CallsAt("clip_set")) <= 1
           /\ \A i \in CallsAt("clip_unset") :
                /\ i = Len(gl) - 1
                /\ \A j \in CallsAt("clip_set") \cup CallsAt("paint")
                            \cup CallsAt("rectangle") : j < i

(***************************************************************************)
(* The redraw scheduler under a main loop that runs its idle sources: up   *)
(* to MaxQueued requests from the application, up to MaxRedraws requests   *)
(* made during clutter_redraw, and every registered source run.            *)
(***************************************************************************)
RedrawUpdateIdleLive ==
    \E src \in idle_sources, requeue \in BOOLEAN :
        /\ requeue => redraws < MaxRedraws
        /\ redraw_update_idle(src, requeue)

NextRedrawLive ==
    \/ ncalls < MaxQueued /\ QueueRedraw
    \/ ncalls < MaxQueued /\ SetOpacity
    \/ RedrawUpdateIdleLive

SpecRedrawLive == InitRedraw /\ [][NextRedrawLive]_vars /\ WF_vars(RedrawUpdateIdleLive)

SourceIds == 1..SourceIdWrap

\* C23: whenever clutter_actor_queue_redraw has registered the idle callback, the
\* callback eventually runs; a run calls clutter_redraw once and clears the pending
\* token, so that the next queue_redraw, including one made during that
\* clutter_redraw, registers a new callback.
C23_RedrawServed ==
    /\ \A s \in SourceIds : (s \in idle_sources) ~> (s \notin idle_sources)
    /\ [][ /\ last'.op = "redraw_update_idle"
              => /\ redraws' = redraws + 1
                 /\ last'.arg[1] \notin idle_sources'
                 /\ IF last'.arg[2]
                    THEN /\ update_idle' \notin {0, last'.arg[1]}
                         /\ idle_sources' = {update_idle'}
                         /\ tick'.scheduled = tick.scheduled + 1
                    ELSE update_idle' = 0 /\ idle_sources' = {}
           /\ (last'.queued > 0 /\ last'.op # "redraw_update_idle" /\ update_idle = 0)
              => /\ update_idle' # 0
                 /\ idle_sources' = {update_idle'}
                 /\ tick'.scheduled = tick.scheduled + 1 ]_vars

\* the callback registered by a request made during clutter_redraw has run, and a
\* request made after it has registered the next one
C23_Witness ==
    /\ redraws >= 2
    /\ last.op = "queue_redraw"
    /\ tick.queued = 1
    /\ update_idle # 0
    /\ tick.scheduled = redraws + 1

(***************************************************************************)
(* Redraw requests of the modification functions, over SpecSetters.        *)
(***************************************************************************)
RenderSetters == { "request_coords", "set_depth", "set_scalex", "set_rotationx",
                   "set_opacity", "set_clip", "remove_clip", "set_anchor_pointu" }

\* C24: a modification function that changed geometry, depth, scale, rotation, opacity,
\* clip or anchor point of a visible actor leaves a redraw pending when it returns.
C24_ChangeQueuesRedraw ==
    (last.op \in RenderSetters /\ last.was_visible /\ ~last.same)
        => update_idle # 0

(***************************************************************************)
(* Size round trip, over the calls of SpecBox.                             *)
(***************************************************************************)
clutter_actor_get_size(p) == << clutter_actor_get_width(p), clutter_actor_get_height(p) >>

\* what a size getter must return after a setter was given `arg`
SizeAfter(arg, before, after) ==
    /\ arg >= 0 => after = arg
    /\ arg = -1 => after = before

\* C25: clutter_actor_set_size (w, h) followed by clutter_actor_get_size returns (w, h)
\* for every w >= 0 and h >= 0, zero included, and a dimension passed as -1 is left
\* unchanged; the same holds for set_width / get_width and set_height / get_height.
C25_SizeRoundTrip ==
    [][ LET before == clutter_actor_get_size(actors[last'.self])
            after == clutter_actor_get_size(actors'[last'.self])
        IN /\ last'.op = "set_size"
                => /\ SizeAfter(last'.arg[1], before[1], after[1])
                   /\ SizeAfter(last'.arg[2], before[2], after[2])
           /\ last'.op = "set_width"
                => /\ SizeAfter(last'.arg[1], before[1],
                                clutter_actor_get_width(actors'[last'.self]))
                   /\ after[2] = before[2]
           /\ last'.op = "set_height"
                => /\ SizeAfter(last'.arg[1], before[2],
                                clutter_actor_get_height(actors'[last'.self]))
                   /\ after[1] = before[1] ]_vars

(***************************************************************************)
(* The backend state around a coordinate query, over SpecTransform.        *)
(* clutter_actor_get_vertices and clutter_actor_get_abs_size go through    *)
(* clutter_actor_transform_vertices, clutter_actor_apply_transform_to_point *)
(* and clutter_actor_get_abs_position through clutter_actor_transform_point, *)
(* which issues the same backend calls.                                    *)
(***************************************************************************)
\* C26: a coordinate query issues as many clip-unset calls as clip-set calls and as
\* many matrix pops as pushes, also when the actor or one of its ancestors has a clip.
C26_QueriesRestoreBackend ==
    (last.op = "transform_vertices")
        => /\ Cardinality(CallsAt("clip_set")) = Cardinality(CallsAt("clip_unset"))
           /\ Cardinality(CallsAt("push_matrix")) = Cardinality(CallsAt("pop_matrix"))

(***************************************************************************)
(* The identifier table under attach, detach, reparent and destroy calls.  *)
(***************************************************************************)
NextTable ==
    \/ ncalls < MaxCalls /\ SetParent
    \/ ncalls < MaxCalls /\ Unparent
    \/ ncalls < MaxCalls /\ Reparent
    \/ ncalls < MaxCalls /\ Destroy

SpecTable == InitDestroy /\ [][NextTable]_vars

\* C27: after any sequence of set_parent, unparent, reparent and destroy calls the
\* identifier table has an entry for the identifier of an actor if and only if the
\* actor has a parent, and the entry maps to that actor.
C27_TableMatchesParents ==
    \A a \in Actors :
        /\ (actors[a].id \in DOMAIN actor_hash) <=> (actors[a].parent_actor # NULL)
        /\ (actors[a].id \in DOMAIN actor_hash) => actor_hash[actors[a].id] = a

(***************************************************************************)
(* Identifiers over the life of the process: actors are created (and the   *)
(* actor that held the slot before is gone), each taking the value of the  *)
(* counter __id.  The counter of the model stays below 2^31.               *)
(***************************************************************************)
\* numbers of actors created and destroyed elsewhere between two steps
CreateCounts == { 1, Pow2(16) - NActors, Pow2(24) - NActors }

\* clutter_actor_init: priv->id = __id++
Create ==
    \E self \in Actors :
        /\ actors' = [actors EXCEPT ![self] = clutter_actor_init(id_counter)]
        /\ id_counter' = id_counter + 1
        /\ gl' = <<>>
        /\ applied' = <<>>
        /\ emitted' = <<>>
        /\ last' = [NoCall EXCEPT !.op = "init", !.self = self, !.arg = << id_counter >>]
        /\ ncalls' = ncalls + 1
        /\ UNCHANGED <<mem, behave, destroy_emitted, walk, delivered, update_idle, pick_mode, bitmasks,
                       actor_hash, idle_sources, next_source, tick, redraws>>

\* n actors created and finalized: the counter moves on, the scene stays
CreateOthers ==
    \E n \in CreateCounts :
        /\ id_counter' = id_counter + n
        /\ gl' = <<>>
        /\ applied' = <<>>
        /\ emitted' = <<>>
        /\ last' = [NoCall EXCEPT !.op = "init_others", !.arg = << n >>]
        /\ ncalls' = ncalls + 1
        /\ UNCHANGED <<mem, behave, actors, destroy_emitted, walk, delivered, update_idle, pick_mode,
                       bitmasks, actor_hash, idle_sources, next_source, tick, redraws>>

InitCreate ==
    /\ actors = Created(0)
    /\ id_counter = NActors
    /\ actor_hash = HashOf(actors)
    /\ pick_mode = "ALL"
    /\ bitmasks \in { <<8, 8, 8>>, <<5, 6, 5>>, <<5, 5, 5>> }
    /\ InitRest

NextCreate ==
    \/ ncalls < MaxCalls /\ Create
    \/ ncalls < MaxCalls /\ CreateOthers

SpecCreate == InitCreate /\ [][NextCreate]_vars

\* C28: under the channel depths of the backend any two actors that exist at the same
\* time have different identifiers and are encoded to different pick colours, however
\* many actors were created before them.
C28_PickColoursDistinct ==
    \A a, b \in Actors :
        a # b => /\ actors[a].id # actors[b].id
                 /\ PickColor(actors[a].id, bitmasks[1], bitmasks[2], bitmasks[3])
                      # PickColor(actors[b].id, bitmasks[1], bitmasks[2], bitmasks[3])

(***************************************************************************)
(* The name of an actor: clutter_actor_set_name, clutter_actor_get_name    *)
(* and clutter_actor_finalize on the heap mem.blocks.  g_strdup returns    *)
(* any address that is not live (one never used, or a freed one); g_free   *)
(* of a freed address is a double free, after which nothing is known of    *)
(* the process: the run of the model ends there.                           *)
(***************************************************************************)
NameArgs == { "NULL", "", "tag" }

g_free(blocks, ptr) ==
    IF ptr = NULL THEN blocks
    ELSE [blocks EXCEPT ![ptr] = IF @ = "live" THEN "freed" ELSE "freed_twice"]

Defined(blocks) == \A b \in Blocks : blocks[b] # "freed_twice"

\* new: the address g_strdup returns, when it is called
clutter_actor_set_name(p, blocks, name, new) ==
    LET b1 == g_free(blocks, p.name) IN
    IF name # "NULL" /\ name # ""
    THEN [p |-> [p EXCEPT !.name = new], blocks |-> [b1 EXCEPT ![new] = "live"]]
    ELSE [p |-> p, blocks |-> b1]

clutter_actor_get_name(p) == p.name

SetName ==
    \E self \in Actors \ mem.finalized, name \in NameArgs, new \in Blocks :
        LET b1 == g_free(mem.blocks, actors[self].name)
            r == clutter_actor_set_name(actors[self], mem.blocks, name, new)
        IN
        /\ Defined(mem.blocks)
        /\ b1[new] # "live"
        /\ actors' = [actors EXCEPT ![self] = r.p]
        /\ mem' = [mem EXCEPT !.blocks = r.blocks]
        /\ gl' = <<>>
        /\ applied' = <<>>
        /\ emitted' = << "name" >>
        /\ last' = [NoCall EXCEPT !.op = "set_name", !.self = self, !.arg = << name >>,
                                  !.ret = << clutter_actor_get_name(r.p) >>]
        /\ ncalls' = ncalls + 1
        /\ UNCHANGED <<behave, id_counter, destroy_emitted, walk, delivered, update_idle,
                       pick_mode, bitmasks, actor_hash, idle_sources, next_source, tick,
                       redraws>>

\* clutter_actor_finalize: the last reference is dropped
Finalize ==
    \E self \in Actors \ mem.finalized :
        /\ Defined(mem.blocks)
        /\ mem' = [blocks |-> g_free(mem.blocks, actors[self].name),
                   finalized |-> mem.finalized \cup {self}]
        /\ gl' = <<>>
        /\ applied' = <<>>
        /\ emitted' = <<>>
        /\ last' = [NoCall EXCEPT !.op = "finalize", !.self = self]
        /\ ncalls' = ncalls + 1
        /\ UNCHANGED <<behave, actors, id_counter, destroy_emitted, walk, delivered,
                       update_idle, pick_mode, bitmasks, actor_hash, idle_sources,
                       next_source, tick, redraws>>

InitName ==
    /\ actors = Created(0)
    /\ id_counter = NActors
    /\ actor_hash = HashOf(actors)
    /\ pick_mode = "NONE"
    /\ bitmasks = <<8, 8, 8>>
    /\ InitRest

NextName ==
    \/ ncalls < MaxNameCalls /\ SetName
    \/ ncalls < MaxNameCalls /\ Finalize

SpecName == InitName /\ [][NextName]_vars

\* C29: after any sequence of clutter_actor_set_name calls the name of a live actor is
\* NULL or a live string of its own: clutter_actor_get_name never returns a freed
\* string, and no string is freed twice, by a later set_name or by finalize.
C29_NameLive ==
    /\ Defined(mem.blocks)
    /\ \A a \in Actors \ mem.finalized :
         LET n == clutter_actor_get_name(actors[a]) IN
         n # NULL => /\ mem.blocks[n] = "live"
                     /\ \A b \in Actors \ (mem.finalized \cup {a}) :
                          clutter_actor_get_name(actors[b]) # n

(***************************************************************************)
(* ClutterBehaviourScale.  A property value (a double) is written          *)
(* <<i, f>> for i + f / 65536; the bounds are stored as ClutterFixed, 32   *)
(* bits wide.  A double of 32768.0 or more has no ClutterFixed: what the   *)
(* conversion leaves in the field is then any 32-bit value, and so is the  *)
(* result of a subtraction that leaves the 32 bits.  The behaviour's       *)
(* gravity is CLUTTER_GRAVITY_NONE: the anchor points are left alone.      *)
(***************************************************************************)
CLUTTER_ALPHA_MAX_ALPHA == 65535
MaxInt32 == 2147483647
MinInt32 == (-2147483647) - 1

Double(i, f) == << i, f >>
\* the double a ClutterFixed stands for
CLUTTER_FIXED_TO_DOUBLE(x) == Double(x \div CFX_ONE, x % CFX_ONE)
LessEq(d, e) == d[1] < e[1] \/ (d[1] = e[1] /\ d[2] <= e[2])

\* values of the scale-start and scale-end properties: 0.0 .. G_MAXDOUBLE
ScaleBounds == { Double(0, 0), Double(0, 32768), Double(1, 0), Double(2, 1),
                 Double(32767, 65535), Double(40000, 0) }
\* what a conversion or a subtraction outside the 32 bits may leave
Undefined32 == { -Pow2(30), 0, Pow2(30) }
AlphaArgs == { 0, 1, 32768, CLUTTER_ALPHA_MAX_ALPHA - 1, CLUTTER_ALPHA_MAX_ALPHA }

Representable(d) == d[1] < 32768
CLUTTER_FLOAT_TO_FIXED(d, undef) ==
    IF Representable(d) THEN d[1] * CFX_ONE + d[2] ELSE undef

CLUTTER_FIXED_MUL(x, y) == CFX_MUL(x, y)

\* priv->scale_end - priv->scale_start in 32 bits
SubOverflows(a, b) ==
    \/ b < 0 /\ a > MaxInt32 + b
    \/ b > 0 /\ a < MinInt32 + b

\* CLUTTER_INT_TO_FIXED (alpha_value) / CLUTTER_ALPHA_MAX_ALPHA on a guint32 of at most
\* MAX_ALPHA: alpha * 65536 = alpha * 65535 + alpha, so the quotient is
\* alpha + alpha / 65535 (written so, the product stays within 32 signed bits)
AlphaFactor(alpha_value) ==
    alpha_value + alpha_value \div CLUTTER_ALPHA_MAX_ALPHA

clutter_behaviour_scale_alpha_notify(b, alpha_value, undef) ==
    LET factor == AlphaFactor(alpha_value) IN
    IF SubOverflows(b.scale_end, b.scale_start) THEN undef
    ELSE CLUTTER_FIXED_MUL(factor, b.scale_end - b.scale_start) + b.scale_start

\* scale_frame_foreach on every actor of the behaviour
scale_frame_foreach(acts, driven, scale) ==
    [a \in Actors |-> IF a \in driven
                      THEN clutter_actor_set_scalex(acts[a], scale, scale).p
                      ELSE acts[a]]

SetScaleStart ==
    \E value \in ScaleBounds, undef \in Undefined32 :
        /\ behave' = [behave EXCEPT !.prop_start = value,
                                    !.scale_start = CLUTTER_FLOAT_TO_FIXED(value, undef)]
        /\ gl' = <<>>
        /\ applied' = <<>>
        /\ emitted' = <<>>
        /\ last' = [NoCall EXCEPT !.op = "scale-start", !.arg = << value >>]
        /\ ncalls' = ncalls + 1
        /\ UNCHANGED <<mem, actors, id_counter, destroy_emitted, walk, delivered,
                       update_idle, pick_mode, bitmasks, actor_hash, idle_sources,
                       next_source, tick, redraws>>

SetScaleEnd ==
    \E value \in ScaleBounds, undef \in Undefined32 :
        /\ behave' = [behave EXCEPT !.prop_end = value,
                                    !.scale_end = CLUTTER_FLOAT_TO_FIXED(value, undef)]
        /\ gl' = <<>>
        /\ applied' = <<>>
        /\ emitted' = <<>>
        /\ last' = [NoCall EXCEPT !.op = "scale-end", !.arg = << value >>]
        /\ ncalls' = ncalls + 1
        /\ UNCHANGED <<mem, actors, id_counter, destroy_emitted, walk, delivered,
                       update_idle, pick_mode, bitmasks, actor_hash, idle_sources,
                       next_source, tick, redraws>>

AlphaNotify ==
    \E alpha_value \in AlphaArgs, undef \in Undefined32 :
        LET scale == clutter_behaviour_scale_alpha_notify(behave, alpha_value, undef)
            visible == {a \in behave.actors : CLUTTER_ACTOR_IS_VISIBLE(actors[a])}
        IN
        /\ actors' = scale_frame_foreach(actors, behave.actors, scale)
        /\ SetCtx(QueueTimes(Cardinality(visible), Ctx))
        /\ gl' = <<>>
        /\ applied' = <<>>
        /\ emitted' = IF behave.actors = {} THEN <<>> ELSE << "scale-x", "scale-y" >>
        /\ last' = [NoCall EXCEPT !.op = "alpha_notify", !.arg = << alpha_value >>,
                                  !.ret = << scale >>,
                                  !.queued = Cardinality(visible)]
        /\ ncalls' = ncalls + 1
        /\ UNCHANGED <<mem, behave, id_counter, destroy_emitted, walk, delivered,
                       pick_mode, bitmasks, actor_hash, redraws>>

\* clutter_behaviour_scale_newx with the defaults of the properties, applied to some actors
InitScale ==
    /\ \E fl \in {{}, Visible} :
         actors = [a \in Actors |-> [Created(0)[a] EXCEPT !.flags = fl]]
    /\ id_counter = NActors
    /\ actor_hash = HashOf(actors)
    /\ pick_mode = "NONE"
    /\ bitmasks = <<8, 8, 8>>
    /\ InitCore
    /\ \E driven \in (SUBSET Actors) \ {{}} :
         behave = [NoBehaviour EXCEPT !.actors = driven]

NextScale ==
    \/ ncalls < MaxScaleCalls /\ SetScaleStart
    \/ ncalls < MaxScaleCalls /\ SetScaleEnd
    \/ ncalls < MaxScaleCalls /\ AlphaNotify

SpecScale == InitScale /\ [][NextScale]_vars

ScaleOf(a) == CLUTTER_FIXED_TO_DOUBLE(actors[a].scale_x)
BetweenBounds(d) ==
    \/ LessEq(behave.prop_start, d) /\ LessEq(d, behave.prop_end)
    \/ LessEq(behave.prop_end, d) /\ LessEq(d, behave.prop_start)

\* C30: after an alpha notification every actor of the scale behaviour has scale_x and
\* scale_y at one value: exactly scale-start at alpha 0, exactly scale-end at alpha
\* MAX_ALPHA, and between the two bounds at every alpha, for all bounds the scale-start
\* and scale-end properties accept.
C30_ScaleInterpolates ==
    last.op = "alpha_notify" =>
        \A a \in behave.actors :
            /\ actors[a].scale_x = actors[a].scale_y
            /\ last.arg[1] = 0 => ScaleOf(a) = behave.prop_start
            /\ last.arg[1] = CLUTTER_ALPHA_MAX_ALPHA => ScaleOf(a) = behave.prop_end
            /\ BetweenBounds(ScaleOf(a))

====
